---- MODULE Spec2Model ----
(***************************************************************************)
(* Feed ingestion and reconciliation engine of apollos-kiosk               *)
(* (src/src/main.rs): the content decoder, the envelope unwrapper, the     *)
(* feed store, the panel assignment ledger, the theme resolver, the two    *)
(* MQTT subscriber threads and the consumer's frame tick.                  *)
(*                                                                         *)
(* Feed keys are sequences of characters, so that str::starts_with is a    *)
(* comparison of an initial segment.  JSON values are tagged records:      *)
(* objects are functions from field names to values, arrays are sequences. *)
(***************************************************************************)
EXTENDS Integers, Sequences, FiniteSets, TLC

VARIABLES
    data,           \* self.data: feed key -> DataEntry (keys with an entry only)
    config,         \* self.config: panels, unassigned, current_theme, mqtt_theme_sync
    current_theme,  \* self.current_theme
    disk,           \* the configuration record last written to config.toml
    rx,             \* the raw data message queue (mpsc channel tx -> self.rx)
    theme_rx,       \* the theme name queue (mpsc channel theme_tx -> self.theme_rx)
    pc,             \* the consumer's position inside update()
    nwrites,        \* fs::write calls made by the consumer step recorded in last
    last,           \* the latest consumer step that did something: what it was given
    published,      \* a fixed sequence of messages published on a subscribed topic
    delivered,      \* how many of them the subscriber has received
    argv,           \* the command line and environment: what was supplied
    data_sub,       \* the Data Subscriber thread: its position and its connection
    theme_sub,      \* the Theme Subscriber thread: its position and its connection
    repaint,        \* a repaint has been requested (ctx.request_repaint());
                    \* serving the request is the framework's, not update()'s
    show_theme_selector,  \* self.show_theme_selector
    log             \* history: the items rx_mqtt.iter() gave each subscriber and
                    \* what the consumer took off each queue, in order

vars == <<data, config, current_theme, disk, rx, theme_rx, pc, nwrites, last,
         published, delivered, argv, data_sub, theme_sub, repaint, show_theme_selector,
         log>>

\* ------------------------------------------------------------------------
\* Option<T>
\* ------------------------------------------------------------------------
None == [t |-> "None"]

Some(x) == [t |-> "Some", v |-> x]

\* ------------------------------------------------------------------------
\* serde_json::Value
\* ------------------------------------------------------------------------
JNull == [t |-> "null"]

JNum(n) == [t |-> "num", v |-> n]

JStr(s) == [t |-> "str", v |-> s]

JObj(f) == [t |-> "obj", v |-> f]

JArr(s) == [t |-> "arr", v |-> s]

\* A payload that is not JSON at all.
Garbage == [t |-> "garbage"]

is_null(value) == value.t = "null"

is_object(value) == value.t = "obj"

is_array(value) == value.t = "arr"

contains_key(obj, name) == name \in DOMAIN obj

\* str::starts_with on character sequences.
starts_with(key, prefix) ==
    /\ Len(key) >= Len(prefix)
    /\ SubSeq(key, 1, Len(prefix)) = prefix

P_gtfs == <<"g", "t", "f", "s", "-">>

P_gbfs == <<"g", "b", "f", "s", "-">>

P_weather == <<"w", "e", "a", "t", "h", "e", "r", "-">>

P_aqi == <<"a", "q", "i", "-">>

P_ephem == <<"e", "p", "h", "e", "m", "-">>

P_cal == <<"c", "a", "l", "-">>

P_tidal == <<"t", "i", "d", "a", "l", "-">>

P_cronos == <<"c", "r", "o", "n", "o", "s", "-">>

P_gitlab == <<"g", "i", "t", "l", "a", "b", "-">>

P_pkg == <<"p", "k", "g", "-">>

P_const == <<"c", "o", "n", "s", "t", "-">>

\* ------------------------------------------------------------------------
\* serde's derived Deserialize for the condensed structs.  The structs live
\* in the apollos_types crate; the fields below are the ones main.rs reads.
\* ------------------------------------------------------------------------
Req(kind) == [kind |-> kind, required |-> TRUE]

Opt(kind) == [kind |-> kind, required |-> FALSE]

StructFields(T) ==
    CASE T = "Gtfs" ->
            [route |-> Req("str"), dest |-> Req("str"), dir |-> Req("str"),
             times |-> Req("arr"), times_live |-> Opt("arr"), mode |-> Req("str")]
      [] T = "Gbfs" ->
            [name |-> Req("str"), avail_std |-> Req("num"),
             avail_elec |-> Req("num"), docks_avail |-> Req("num")]
      [] T = "Weather" ->
            [temp |-> Req("num"), feel |-> Req("num"), weather |-> Req("str"),
             wind |-> Req("Wind"), hum |-> Req("num")]
      [] T = "Aqi" ->
            [name |-> Opt("str"), measurements |-> Req("arr")]
      [] T = "Ephem" ->
            [name |-> Req("str"), periods |-> Req("obj")]
      [] T = "Calendar" ->
            [description |-> Req("str"), date_start |-> Req("str")]
      [] T = "Tidal" ->
            [first_h |-> Opt("str"), first_l |-> Opt("str")]

FieldOk(kind, value) ==
    IF kind = "Wind"
    THEN /\ is_object(value)
         /\ contains_key(value.v, "speed")
         /\ value.v.speed.t = "num"
    ELSE value.t = kind

\* Does one array element deserialize as struct T: an object holding every
\* required field with a value of the field's kind (unknown fields ignored,
\* an optional field absent or null).
Conforms(T, elem) ==
    /\ is_object(elem)
    /\ \A f \in DOMAIN StructFields(T) :
          LET s == StructFields(T)[f]
          IN  IF contains_key(elem.v, f)
              THEN FieldOk(s.kind, elem.v[f]) \/ (~s.required /\ is_null(elem.v[f]))
              ELSE ~s.required

\* The struct built from a conforming element: its declared fields only.
DecodeStruct(T, elem) ==
    [f \in DOMAIN StructFields(T) |->
        IF contains_key(elem.v, f) THEN elem.v[f] ELSE JNull]

\* from_value_vec that also takes a single bare struct for a list of one.
from_value_vec_AcceptsBareObject(T, value) ==
    IF is_array(value) /\ \A i \in 1..Len(value.v) : Conforms(T, value.v[i])
    THEN Some([variant |-> T,
               body |-> [i \in 1..Len(value.v) |-> DecodeStruct(T, value.v[i])]])
    ELSE IF Conforms(T, value)
    THEN Some([variant |-> T, body |-> <<DecodeStruct(T, value)>>])
    ELSE None

\* serde_json::from_value::<Vec<T>>(value).ok().map(CondensedData::T)
from_value_vec(T, value) ==
    IF is_array(value) /\ \A i \in 1..Len(value.v) : Conforms(T, value.v[i])
    THEN Some([variant |-> T,
               body |-> [i \in 1..Len(value.v) |-> DecodeStruct(T, value.v[i])]])
    ELSE None

\* serde_json::from_value::<QueryInfo>(value).ok()
from_value_QueryInfo(value) ==
    IF is_object(value) /\ contains_key(value.v, "name") /\ value.v.name.t = "str"
    THEN Some([name |-> value.v.name.v])
    ELSE None

\* ------------------------------------------------------------------------
\* Content Decoder
\* ------------------------------------------------------------------------
\* The decoder without its two empty-data checks.
parse_content_by_prefix_NoEmptyCheck(key, value) ==
    IF starts_with(key, P_gtfs) THEN from_value_vec("Gtfs", value)
    ELSE IF starts_with(key, P_gbfs) THEN from_value_vec("Gbfs", value)
    ELSE IF starts_with(key, P_weather) THEN from_value_vec("Weather", value)
    ELSE IF starts_with(key, P_aqi) THEN from_value_vec("Aqi", value)
    ELSE IF starts_with(key, P_ephem) THEN from_value_vec("Ephem", value)
    ELSE IF starts_with(key, P_cal) THEN from_value_vec("Calendar", value)
    ELSE IF starts_with(key, P_tidal) THEN from_value_vec("Tidal", value)
    ELSE IF starts_with(key, P_cronos) THEN Some([variant |-> "Cronos", body |-> value])
    ELSE IF starts_with(key, P_gitlab) THEN Some([variant |-> "Gitlab", body |-> value])
    ELSE IF starts_with(key, P_pkg) THEN Some([variant |-> "Packages", body |-> value])
    ELSE IF starts_with(key, P_const) THEN Some([variant |-> "Const", body |-> value])
    ELSE None

\* The decoder with a catch-all branch that stores an unknown key's value raw.
parse_content_by_prefix_Fallback(key, value) ==
    IF is_null(value) \/ (is_object(value) /\ DOMAIN value.v = {}) THEN None
    ELSE IF is_array(value) /\ Len(value.v) = 0 THEN None
    ELSE IF starts_with(key, P_gtfs) THEN from_value_vec("Gtfs", value)
    ELSE IF starts_with(key, P_gbfs) THEN from_value_vec("Gbfs", value)
    ELSE IF starts_with(key, P_weather) THEN from_value_vec("Weather", value)
    ELSE IF starts_with(key, P_aqi) THEN from_value_vec("Aqi", value)
    ELSE IF starts_with(key, P_ephem) THEN from_value_vec("Ephem", value)
    ELSE IF starts_with(key, P_cal) THEN from_value_vec("Calendar", value)
    ELSE IF starts_with(key, P_tidal) THEN from_value_vec("Tidal", value)
    ELSE IF starts_with(key, P_cronos) THEN Some([variant |-> "Cronos", body |-> value])
    ELSE IF starts_with(key, P_gitlab) THEN Some([variant |-> "Gitlab", body |-> value])
    ELSE IF starts_with(key, P_pkg) THEN Some([variant |-> "Packages", body |-> value])
    ELSE IF starts_with(key, P_const) THEN Some([variant |-> "Const", body |-> value])
    ELSE Some([variant |-> "Const", body |-> value])

\* A decoder whose opaque branches take objects and arrays only.
parse_content_by_prefix_OpaqueNeedsStructure(key, value) ==
    IF is_null(value) \/ (is_object(value) /\ DOMAIN value.v = {}) THEN None
    ELSE IF is_array(value) /\ Len(value.v) = 0 THEN None
    ELSE IF starts_with(key, P_gtfs) THEN from_value_vec("Gtfs", value)
    ELSE IF starts_with(key, P_gbfs) THEN from_value_vec("Gbfs", value)
    ELSE IF starts_with(key, P_weather) THEN from_value_vec("Weather", value)
    ELSE IF starts_with(key, P_aqi) THEN from_value_vec("Aqi", value)
    ELSE IF starts_with(key, P_ephem) THEN from_value_vec("Ephem", value)
    ELSE IF starts_with(key, P_cal) THEN from_value_vec("Calendar", value)
    ELSE IF starts_with(key, P_tidal) THEN from_value_vec("Tidal", value)
    ELSE IF ~(is_object(value) \/ is_array(value)) THEN None
    ELSE IF starts_with(key, P_cronos) THEN Some([variant |-> "Cronos", body |-> value])
    ELSE IF starts_with(key, P_gitlab) THEN Some([variant |-> "Gitlab", body |-> value])
    ELSE IF starts_with(key, P_pkg) THEN Some([variant |-> "Packages", body |-> value])
    ELSE IF starts_with(key, P_const) THEN Some([variant |-> "Const", body |-> value])
    ELSE None

parse_content_by_prefix(key, value) ==
    IF is_null(value) \/ (is_object(value) /\ DOMAIN value.v = {}) THEN None
    ELSE IF is_array(value) /\ Len(value.v) = 0 THEN None
    ELSE IF starts_with(key, P_gtfs) THEN from_value_vec("Gtfs", value)
    ELSE IF starts_with(key, P_gbfs) THEN from_value_vec("Gbfs", value)
    ELSE IF starts_with(key, P_weather) THEN from_value_vec("Weather", value)
    ELSE IF starts_with(key, P_aqi) THEN from_value_vec("Aqi", value)
    ELSE IF starts_with(key, P_ephem) THEN from_value_vec("Ephem", value)
    ELSE IF starts_with(key, P_cal) THEN from_value_vec("Calendar", value)
    ELSE IF starts_with(key, P_tidal) THEN from_value_vec("Tidal", value)
    ELSE IF starts_with(key, P_cronos) THEN Some([variant |-> "Cronos", body |-> value])
    ELSE IF starts_with(key, P_gitlab) THEN Some([variant |-> "Gitlab", body |-> value])
    ELSE IF starts_with(key, P_pkg) THEN Some([variant |-> "Packages", body |-> value])
    ELSE IF starts_with(key, P_const) THEN Some([variant |-> "Const", body |-> value])
    ELSE None

\* ------------------------------------------------------------------------
\* Envelope Unwrapper
\* ------------------------------------------------------------------------
\* parse_data_entry that unwraps the envelope and forgets its query.
parse_data_entry_DropsQuery(key, value) ==
    IF /\ is_object(value)
       /\ contains_key(value.v, "data")
       /\ contains_key(value.v, "query")
    THEN LET query_info == from_value_QueryInfo(value.v.query)
             content == parse_content_by_prefix(key, value.v.data)
         IN  IF query_info = None THEN None
             ELSE IF content = None THEN None
             ELSE Some([content |-> content.v, query_info |-> None])
    ELSE LET content == parse_content_by_prefix(key, value)
         IN  IF content = None THEN None
             ELSE Some([content |-> content.v, query_info |-> None])

\* parse_data_entry that tries the legacy decode of the outer object when a
\* part of the envelope fails to decode.
parse_data_entry_FallThrough(key, value) ==
    LET legacy == parse_content_by_prefix(key, value)
        envelope ==
            IF /\ is_object(value)
               /\ contains_key(value.v, "data")
               /\ contains_key(value.v, "query")
               /\ from_value_QueryInfo(value.v.query) # None
               /\ parse_content_by_prefix(key, value.v.data) # None
            THEN Some([content |-> parse_content_by_prefix(key, value.v.data).v,
                       query_info |-> Some(from_value_QueryInfo(value.v.query).v)])
            ELSE None
    IN  IF envelope # None THEN envelope
        ELSE IF legacy = None THEN None
        ELSE Some([content |-> legacy.v, query_info |-> None])

parse_data_entry(key, value) ==
    IF /\ is_object(value)
       /\ contains_key(value.v, "data")
       /\ contains_key(value.v, "query")
    THEN LET query_info == from_value_QueryInfo(value.v.query)
             content == parse_content_by_prefix(key, value.v.data)
         IN  IF query_info = None THEN None
             ELSE IF content = None THEN None
             ELSE Some([content |-> content.v, query_info |-> Some(query_info.v)])
    ELSE LET content == parse_content_by_prefix(key, value)
         IN  IF content = None THEN None
             ELSE Some([content |-> content.v, query_info |-> None])

\* ------------------------------------------------------------------------
\* Feed keys and JSON values used as inputs
\* ------------------------------------------------------------------------
K_weather_home == <<"w", "e", "a", "t", "h", "e", "r", "-", "h", "o", "m", "e">>

K_gtfs_1 == <<"g", "t", "f", "s", "-", "1">>

K_cronos_a == <<"c", "r", "o", "n", "o", "s", "-", "a">>

K_foo_x == <<"f", "o", "o", "-", "x">>

K_gbfs_1 == <<"g", "b", "f", "s", "-", "1">>

K_aqi_1 == <<"a", "q", "i", "-", "1">>

K_ephem_1 == <<"e", "p", "h", "e", "m", "-", "1">>

K_cal_1 == <<"c", "a", "l", "-", "1">>

K_tidal_1 == <<"t", "i", "d", "a", "l", "-", "1">>

K_gitlab_1 == <<"g", "i", "t", "l", "a", "b", "-", "1">>

K_pkg_1 == <<"p", "k", "g", "-", "1">>

K_const_1 == <<"c", "o", "n", "s", "t", "-", "1">>

\* Keys that match no prefix: no dash, prefix not at the start, wrong case.
K_gtfs == <<"g", "t", "f", "s">>

K_xgtfs_1 == <<"x", "g", "t", "f", "s", "-", "1">>

K_Weather_home == <<"W", "e", "a", "t", "h", "e", "r", "-", "h", "o", "m", "e">>

EmptyObj == JObj(<<>>)

EmptyArr == JArr(<<>>)

\* {"temp": 72.5, "feel": 70.1, "weather": "Clear", "wind": {"speed": 5}, "hum": 40}
WeatherReport ==
    JObj([temp |-> JNum("72.5"), feel |-> JNum("70.1"), weather |-> JStr("Clear"),
          wind |-> JObj([speed |-> JNum("5")]), hum |-> JNum("40")])

WeatherArr == JArr(<<WeatherReport>>)

\* A report with a mistyped field and the other fields missing.
WeatherBadArr == JArr(<<JObj([temp |-> JStr("hot")])>>)

\* A second, different list of reports (with a field the struct does not have).
WeatherArr2 ==
    JArr(<<JObj([temp |-> JNum("60"), feel |-> JNum("58"), weather |-> JStr("Rain"),
                 wind |-> JObj([speed |-> JNum("12")]), hum |-> JNum("90"),
                 station |-> JStr("KSEA")])>>)

GtfsArr ==
    JArr(<<JObj([route |-> JStr("N"), dest |-> JStr("Ocean Beach"),
                 dir |-> JStr("Outbound"), times |-> JArr(<<JStr("12:05")>>),
                 mode |-> JStr("LightRail")])>>)

OpaqueObj == JObj([jobs |-> JNum("3")])

Scalar == JNum("42")

QueryOk == JObj([name |-> JStr("Home"), lat |-> JNum("47.6")])

QueryOther == JObj([name |-> JStr("Office")])

\* A query object without a name.
QueryBad == JObj([lat |-> JNum("47.6")])

Envelope(d, q) == JObj([data |-> d, query |-> q])

\* An object with a data field and no query field: not envelope-shaped.
DataOnly == JObj([data |-> WeatherArr])

\* A message payload: a JSON object mapping one feed key to a value, or two.
Msg1(k, v) == JObj(k :> v)

Msg2(k1, v1, k2, v2) == JObj(k1 :> v1 @@ k2 :> v2)

\* One payload with two keys that fail beside a key that decodes: a schema
\* mismatch, an envelope whose query has no name.
MsgMixed ==
    JObj(K_weather_home :> WeatherBadArr
         @@ K_gtfs_1 :> Envelope(GtfsArr, QueryBad)
         @@ K_cronos_a :> Scalar)

\* ------------------------------------------------------------------------
\* Config, save_config
\* ------------------------------------------------------------------------
\* default_theme_mqtt_host()
default_theme_mqtt_host == "localhost"

\* default_theme_mqtt_topic()
\* A topic (or topic filter) is the sequence of its levels: "neiam/sync/theme"
\* is <<"neiam", "sync", "theme">>; two topic strings are equal exactly when
\* their level sequences are.
default_theme_mqtt_topic == <<"neiam", "sync", "theme">>

DefaultConfig ==
    [panels |-> <<<<>>, <<>>, <<>>>>, unassigned |-> <<>>,
     current_theme |-> "Dark", mqtt_theme_sync |-> FALSE,
     mqtt_theme_host |-> default_theme_mqtt_host,
     mqtt_theme_username |-> None, mqtt_theme_password |-> None,
     mqtt_theme_topic |-> default_theme_mqtt_topic]

\* config.toml is absent or does not parse.
NoFile == [t |-> "nofile"]

\* fs::read_to_string(..).ok().and_then(|s| toml::from_str(&s).ok())
\*     .unwrap_or_default()
load_config(file) == IF file = NoFile THEN DefaultConfig ELSE file

\* What the command line and the environment supply for the theme
\* connection: each option is given (Some) or not (None).
Cli(sync, host, username, password, topic) ==
    [mqtt_theme_sync |-> sync, mqtt_theme_host |-> host,
     mqtt_theme_username |-> username, mqtt_theme_password |-> password,
     mqtt_theme_topic |-> topic]

NoCli == Cli(None, None, None, None, None)

\* Args::parse(): an option with a default_value that is not given takes
\* the default; an Option<..> field stays None.
parse_args(cli) ==
    [mqtt_theme_sync |-> cli.mqtt_theme_sync,
     mqtt_theme_host |-> IF cli.mqtt_theme_host = None THEN "tcp://localhost:2883"
                         ELSE cli.mqtt_theme_host.v,
     mqtt_theme_username |-> cli.mqtt_theme_username,
     mqtt_theme_password |-> cli.mqtt_theme_password,
     mqtt_theme_topic |-> IF cli.mqtt_theme_topic = None
                          THEN <<"neiam", "sync", "theme">>
                          ELSE cli.mqtt_theme_topic.v]

\* "Merge args with config (args take precedence)"
merge_args(cfg, args) ==
    [cfg EXCEPT
        !.mqtt_theme_sync = IF args.mqtt_theme_sync # None THEN args.mqtt_theme_sync.v ELSE @,
        !.mqtt_theme_host = args.mqtt_theme_host,
        !.mqtt_theme_username =
            IF args.mqtt_theme_username # None THEN args.mqtt_theme_username ELSE @,
        !.mqtt_theme_password =
            IF args.mqtt_theme_password # None THEN args.mqtt_theme_password ELSE @,
        !.mqtt_theme_topic = args.mqtt_theme_topic]

\* The effective configuration new() computes from config.toml and the
\* command line.
effective_config(file, cli) == merge_args(load_config(file), parse_args(cli))

\* save_config serializes self.config: the copy cfg that receives
\* self.current_theme is built and then not used.
save_config(self_config, self_current_theme) ==
    LET cfg == [self_config EXCEPT !.current_theme = self_current_theme]
    IN  self_config

\* Vec::contains
contains(vec, x) == \E i \in 1..Len(vec) : vec[i] = x

\* Vec::remove(idx), idx counted from 1
remove(vec, idx) == SubSeq(vec, 1, idx - 1) \o SubSeq(vec, idx + 1, Len(vec))

\* An insert that merges: a new entry without Query Info keeps the old one's.
insert_KeepQuery(map, k, e) ==
    [x \in (DOMAIN map) \cup {k} |->
        IF x # k THEN map[x]
        ELSE IF k \in DOMAIN map /\ e.query_info = None
        THEN [e EXCEPT !.query_info = map[k].query_info]
        ELSE e]

\* HashMap::insert
insert(map, k, e) == [x \in (DOMAIN map) \cup {k} |-> IF x = k THEN e ELSE map[x]]

Panels == 1..3

\* ------------------------------------------------------------------------
\* Ingestion Reconciler: the body of `for (key, value) in raw_map`
\* st = [data, config, disk, nwrites]
\* ------------------------------------------------------------------------
\* IngestKey with the is_assigned test left out: a key is registered whenever
\* it has no Feed Store entry.
IngestKey_NoAssignedCheck(st, cur, key, value) ==
    LET entry == parse_data_entry(key, value)
        register == key \notin DOMAIN st.data
        config1 ==
            IF register
            THEN [st.config EXCEPT !.unassigned = Append(@, key)]
            ELSE st.config
    IN  IF entry = None THEN st
        ELSE [data |-> insert(st.data, key, entry.v),
              config |-> config1,
              disk |-> IF register THEN save_config(config1, cur) ELSE st.disk,
              nwrites |-> st.nwrites + (IF register THEN 1 ELSE 0)]

\* IngestKey with self.data.insert moved before the new-key test: the key is
\* never new, so it is never registered.
IngestKey_InsertFirst(st, cur, key, value) ==
    LET entry == parse_data_entry(key, value)
    IN  IF entry = None THEN st
        ELSE [st EXCEPT !.data = insert(st.data, key, entry.v)]

\* IngestKey that forgets the stored entry of a key whose value fails to decode.
IngestKey_DropOnFailure(st, cur, key, value) ==
    LET entry == parse_data_entry(key, value)
        is_assigned ==
            \/ \E p \in Panels : contains(st.config.panels[p], key)
            \/ contains(st.config.unassigned, key)
        register == key \notin DOMAIN st.data /\ ~is_assigned
        config1 ==
            IF register
            THEN [st.config EXCEPT !.unassigned = Append(@, key)]
            ELSE st.config
    IN  IF entry = None
        THEN [st EXCEPT !.data = [x \in (DOMAIN st.data) \ {key} |-> st.data[x]]]
        ELSE [data |-> insert(st.data, key, entry.v),
              config |-> config1,
              disk |-> IF register THEN save_config(config1, cur) ELSE st.disk,
              nwrites |-> st.nwrites + (IF register THEN 1 ELSE 0)]

\* IngestKey that puts a new key at the head of unassigned.
IngestKey_RegistersFirst(st, cur, key, value) ==
    LET entry == parse_data_entry(key, value)
        is_assigned ==
            \/ \E p \in Panels : contains(st.config.panels[p], key)
            \/ contains(st.config.unassigned, key)
        register == key \notin DOMAIN st.data /\ ~is_assigned
        config1 ==
            IF register
            THEN [st.config EXCEPT !.unassigned = <<key>> \o @]
            ELSE st.config
    IN  IF entry = None THEN st
        ELSE [data |-> insert(st.data, key, entry.v),
              config |-> config1,
              disk |-> IF register THEN save_config(config1, cur) ELSE st.disk,
              nwrites |-> st.nwrites + (IF register THEN 1 ELSE 0)]

\* IngestKey that saves the configuration for every key it stores.
IngestKey_SavesEveryKey(st, cur, key, value) ==
    LET entry == parse_data_entry(key, value)
        is_assigned ==
            \/ \E p \in Panels : contains(st.config.panels[p], key)
            \/ contains(st.config.unassigned, key)
        register == key \notin DOMAIN st.data /\ ~is_assigned
        config1 ==
            IF register
            THEN [st.config EXCEPT !.unassigned = Append(@, key)]
            ELSE st.config
    IN  IF entry = None THEN st
        ELSE [data |-> insert(st.data, key, entry.v),
              config |-> config1,
              disk |-> save_config(config1, cur),
              nwrites |-> st.nwrites + 1]

\* A registration that leaves the write to a later save.
IngestKey_NoSave(st, cur, key, value) ==
    LET entry == parse_data_entry(key, value)
        is_assigned ==
            \/ \E p \in Panels : contains(st.config.panels[p], key)
            \/ contains(st.config.unassigned, key)
        register == key \notin DOMAIN st.data /\ ~is_assigned
        config1 ==
            IF register
            THEN [st.config EXCEPT !.unassigned = Append(@, key)]
            ELSE st.config
    IN  IF entry = None THEN st
        ELSE [data |-> insert(st.data, key, entry.v),
              config |-> config1,
              disk |-> st.disk,
              nwrites |-> st.nwrites]

IngestKey(st, cur, key, value) ==
    LET entry == parse_data_entry(key, value)
        is_assigned ==
            \/ \E p \in Panels : contains(st.config.panels[p], key)
            \/ contains(st.config.unassigned, key)
        register == key \notin DOMAIN st.data /\ ~is_assigned
        config1 ==
            IF register
            THEN [st.config EXCEPT !.unassigned = Append(@, key)]
            ELSE st.config
    IN  IF entry = None THEN st
        ELSE [data |-> insert(st.data, key, entry.v),
              config |-> config1,
              disk |-> IF register THEN save_config(config1, cur) ELSE st.disk,
              nwrites |-> st.nwrites + (IF register THEN 1 ELSE 0)]

RECURSIVE IngestAll(_, _, _, _)
IngestAll(st, cur, order, raw_map) ==
    IF order = <<>> THEN st
    ELSE IngestAll(IngestKey(st, cur, Head(order), raw_map[Head(order)]),
                   cur, Tail(order), raw_map)

\* The iteration orders of a HashMap with the key set S.
Orders(S) ==
    {o \in [1..Cardinality(S) -> S] : \A i, j \in DOMAIN o : o[i] = o[j] => i = j}

\* serde_json::from_str::<HashMap<String, Value>>(&payload)
from_str_map(payload) == IF is_object(payload) THEN Some(payload.v) ELSE None

\* ------------------------------------------------------------------------
\* Theme Resolver: the alias match of update().  Theme names are sequences
\* of characters; the canonical identifiers are strings.
\* ------------------------------------------------------------------------
LowerTable ==
    [A |-> "a", B |-> "b", C |-> "c", D |-> "d", E |-> "e", F |-> "f", G |-> "g",
     H |-> "h", I |-> "i", J |-> "j", K |-> "k", L |-> "l", M |-> "m", N |-> "n",
     O |-> "o", P |-> "p", Q |-> "q", R |-> "r", S |-> "s", T |-> "t", U |-> "u",
     V |-> "v", W |-> "w", X |-> "x", Y |-> "y", Z |-> "z"]

\* str::to_lowercase
to_lowercase(name) ==
    [i \in 1..Len(name) |->
        IF name[i] \in DOMAIN LowerTable THEN LowerTable[name[i]] ELSE name[i]]

N_light == <<"l", "i", "g", "h", "t">>

N_light_soft == <<"l", "i", "g", "h", "t", "-", "s", "o", "f", "t">>

N_dark == <<"d", "a", "r", "k">>

N_dark_soft == <<"d", "a", "r", "k", "-", "s", "o", "f", "t">>

N_dark_dimmed == <<"d", "a", "r", "k", "-", "d", "i", "m", "m", "e", "d">>

N_after_dark == <<"a", "f", "t", "e", "r", "-", "d", "a", "r", "k">>

N_her == <<"h", "e", "r">>

N_forest == <<"f", "o", "r", "e", "s", "t">>

N_sky == <<"s", "k", "y">>

N_clays == <<"c", "l", "a", "y", "s">>

N_stones == <<"s", "t", "o", "n", "e", "s">>

N_solarized == <<"s", "o", "l", "a", "r", "i", "z", "e", "d">>

\* A table with a result that the catalog does not have.
kiosk_theme_OffCatalog(theme_name) ==
    LET n == to_lowercase(theme_name)
    IN  IF n = N_light \/ n = N_light_soft THEN "Light"
        ELSE IF n = N_dark \/ n = N_dark_soft \/ n = N_dark_dimmed THEN "Dark"
        ELSE IF n = N_after_dark THEN "After Dark"
        ELSE IF n = N_her THEN "Her"
        ELSE IF n = N_forest THEN "Forest"
        ELSE IF n = N_sky THEN "Sky"
        ELSE IF n = N_clays THEN "Clays"
        ELSE IF n = N_stones THEN "Stones"
        ELSE IF n = N_solarized THEN "Solarized Dark"
        ELSE ""

\* A table that takes an unknown name for the baseline theme.
kiosk_theme_DefaultDark(theme_name) ==
    LET n == to_lowercase(theme_name)
    IN  IF n = N_light \/ n = N_light_soft THEN "Light"
        ELSE IF n = N_after_dark THEN "After Dark"
        ELSE IF n = N_her THEN "Her"
        ELSE IF n = N_forest THEN "Forest"
        ELSE IF n = N_sky THEN "Sky"
        ELSE IF n = N_clays THEN "Clays"
        ELSE IF n = N_stones THEN "Stones"
        ELSE IF n = N_solarized THEN "Solarized"
        ELSE "Dark"

\* A table matched against the name as it came, without lower-casing.
kiosk_theme_CaseSensitive(theme_name) ==
    LET n == theme_name
    IN  IF n = N_light \/ n = N_light_soft THEN "Light"
        ELSE IF n = N_dark \/ n = N_dark_soft \/ n = N_dark_dimmed THEN "Dark"
        ELSE IF n = N_after_dark THEN "After Dark"
        ELSE IF n = N_her THEN "Her"
        ELSE IF n = N_forest THEN "Forest"
        ELSE IF n = N_sky THEN "Sky"
        ELSE IF n = N_clays THEN "Clays"
        ELSE IF n = N_stones THEN "Stones"
        ELSE IF n = N_solarized THEN "Solarized"
        ELSE ""

kiosk_theme(theme_name) ==
    LET n == to_lowercase(theme_name)
    IN  IF n = N_light \/ n = N_light_soft THEN "Light"
        ELSE IF n = N_dark \/ n = N_dark_soft \/ n = N_dark_dimmed THEN "Dark"
        ELSE IF n = N_after_dark THEN "After Dark"
        ELSE IF n = N_her THEN "Her"
        ELSE IF n = N_forest THEN "Forest"
        ELSE IF n = N_sky THEN "Sky"
        ELSE IF n = N_clays THEN "Clays"
        ELSE IF n = N_stones THEN "Stones"
        ELSE IF n = N_solarized THEN "Solarized"
        ELSE ""

\* ------------------------------------------------------------------------
\* The consumer: one frame tick is update(), taken in steps
\*   idle -> (theme queue read) -> drain -> (one message per step) -> ui -> idle
\* ------------------------------------------------------------------------
Last(op, msg, decoded, key, src, dst) ==
    [op |-> op, msg |-> msg, decoded |-> decoded, key |-> key, src |-> src, dst |-> dst]

NoLast == Last("none", JNull, <<>>, <<>>, 0, 0)

\* A resolver that stores the table's result without the two guards of the
\* if: an unknown name is stored as the empty name, and a name that changes
\* nothing is written again.
ResolveTheme_Unguarded(cur, cfg, dsk, theme_name) ==
    [current_theme |-> kiosk_theme(theme_name),
     disk |-> save_config(cfg, kiosk_theme(theme_name)), nwrites |-> 1]

\* A resolver that changes Current Theme and leaves the write to a later save.
ResolveTheme_NoWrite(cur, cfg, dsk, theme_name) ==
    LET kiosk == kiosk_theme(theme_name)
    IN  IF kiosk # "" /\ kiosk # cur
        THEN [current_theme |-> kiosk, disk |-> dsk, nwrites |-> 0]
        ELSE [current_theme |-> cur, disk |-> dsk, nwrites |-> 0]

\* The body of `if let Ok(theme_name) = self.theme_rx.try_recv()`: Current
\* Theme, config.toml and the number of writes after one theme name.
ResolveTheme(cur, cfg, dsk, theme_name) ==
    LET kiosk == kiosk_theme(theme_name)
    IN  IF kiosk # "" /\ kiosk # cur
        THEN [current_theme |-> kiosk, disk |-> save_config(cfg, kiosk), nwrites |-> 1]
        ELSE [current_theme |-> cur, disk |-> dsk, nwrites |-> 0]

\* A theme queue read that waits for a name (recv instead of try_recv).
UpdateTheme_BlockingRecv ==
    /\ pc = "idle"
    /\ theme_rx # <<>>
    /\ pc' = "drain"
    /\ LET theme_name == Head(theme_rx)
           st == ResolveTheme(current_theme, config, disk, theme_name)
       IN  /\ theme_rx' = Tail(theme_rx)
           /\ current_theme' = st.current_theme
           /\ disk' = st.disk
           /\ nwrites' = st.nwrites
           /\ last' = Last("theme", JNull, <<>>, theme_name, 0, 0)
    /\ UNCHANGED <<data, config, rx, published, argv, delivered, data_sub, theme_sub,
                   repaint, show_theme_selector>>

\* if let Ok(theme_name) = self.theme_rx.try_recv() { ... }
UpdateThemeRead ==
    /\ pc = "idle"
    /\ pc' = "drain"
    /\ IF theme_rx = <<>>
       THEN UNCHANGED <<theme_rx, current_theme, disk, nwrites, last>>
       ELSE LET theme_name == Head(theme_rx)
                st == ResolveTheme(current_theme, config, disk, theme_name)
            IN  /\ theme_rx' = Tail(theme_rx)
                /\ current_theme' = st.current_theme
                /\ disk' = st.disk
                /\ nwrites' = st.nwrites
                /\ last' = Last("theme", JNull, <<>>, theme_name, 0, 0)
    /\ UNCHANGED <<data, config, rx, published, argv, delivered, data_sub, theme_sub,
                   show_theme_selector>>

\* A frame tick begins, whatever made the render loop run it; a repaint
\* request that is pending stays pending.
UpdateTheme == UpdateThemeRead /\ UNCHANGED repaint

\* A frame tick begins because a repaint was requested: the one tick serves
\* every request raised before it.
UpdateThemeOnRepaint == repaint /\ UpdateThemeRead /\ repaint' = FALSE

\* ProcessPayload that takes an unparsable payload for "no feeds" and empties
\* the Feed Store.
ProcessPayload_ResetOnBadPayload(st, cur, payload, order) ==
    LET raw_map == from_str_map(payload)
    IN  IF raw_map = None THEN [st EXCEPT !.data = <<>>]
        ELSE IngestAll(st, cur, order, raw_map.v)

\* The body of the drain loop for one message: a payload that is not a JSON
\* object is logged and dropped, the keys of a map are ingested in `order`.
ProcessPayload(st, cur, payload, order) ==
    LET raw_map == from_str_map(payload)
    IN  IF raw_map = None THEN st
        ELSE IngestAll(st, cur, order, raw_map.v)

\* The keys a payload maps, as the loop sees them.
PayloadKeys(payload) ==
    IF from_str_map(payload) = None THEN {} ELSE DOMAIN from_str_map(payload).v

\* One iteration of `while let Ok(msg) = self.rx.try_recv()`.
UpdateData ==
    /\ pc = "drain"
    /\ rx # <<>>
    /\ LET payload == Head(rx)
       IN  \E order \in Orders(PayloadKeys(payload)) :
              LET st == ProcessPayload([data |-> data, config |-> config,
                                        disk |-> disk, nwrites |-> 0],
                                       current_theme, payload, order)
              IN  /\ data' = st.data
                  /\ config' = st.config
                  /\ disk' = st.disk
                  /\ nwrites' = st.nwrites
                  /\ last' = Last(IF from_str_map(payload) = None
                                  THEN "discard" ELSE "ingest",
                                  payload,
                                  [k \in PayloadKeys(payload) |->
                                      parse_data_entry(k, payload.v[k])],
                                  <<>>, 0, 0)
    /\ rx' = Tail(rx)
    /\ pc' = "drain"
    /\ UNCHANGED <<current_theme, theme_rx, published, argv, delivered, data_sub,
                   theme_sub, repaint, show_theme_selector>>

\* A drain that may stop while messages are waiting (an `if let` in place of
\* the `while let`).
UpdateDrained_LeavesMessages ==
    /\ pc = "drain"
    /\ pc' = "ui"
    /\ UNCHANGED <<data, config, current_theme, disk, rx, theme_rx, nwrites, last,
                   published, argv, delivered, data_sub, theme_sub, repaint,
                   show_theme_selector>>

\* try_recv reports an empty queue: the loop ends and the frame is drawn.
UpdateDrained ==
    /\ pc = "drain"
    /\ rx = <<>>
    /\ pc' = "ui"
    /\ UNCHANGED <<data, config, current_theme, disk, rx, theme_rx, nwrites, last,
                   published, argv, delivered, data_sub, theme_sub, repaint,
                   show_theme_selector>>

\* The frame is drawn and no menu entry was clicked.
UiNoClick ==
    /\ pc = "ui"
    /\ pc' = "idle"
    /\ UNCHANGED <<data, config, current_theme, disk, rx, theme_rx, nwrites, last,
                   published, argv, delivered, data_sub, theme_sub, repaint,
                   show_theme_selector>>

\* "Assign to panel": to_move = Some((idx, panel_idx)) in the unassigned box.
UiAssign(idx, panel_idx) ==
    /\ pc = "ui"
    /\ idx \in 1..Len(config.unassigned)
    /\ LET key == config.unassigned[idx]
           config1 == [config EXCEPT !.unassigned = remove(@, idx)]
           config2 == [config1 EXCEPT !.panels[panel_idx] = Append(@, key)]
       IN  /\ config' = config2
           /\ disk' = save_config(config2, current_theme)
           /\ last' = Last("assign", JNull, <<>>, key, 0, panel_idx)
    /\ nwrites' = 1
    /\ pc' = "idle"
    /\ UNCHANGED <<data, current_theme, rx, theme_rx, published, argv, delivered,
                   data_sub, theme_sub, repaint, show_theme_selector>>

\* An "Unassign" that takes the key off its panel and puts it nowhere.
UiUnassign_DropsKey(panel_idx, idx) ==
    /\ pc = "ui"
    /\ idx \in 1..Len(config.panels[panel_idx])
    /\ config.panels[panel_idx][idx] \in DOMAIN data
    /\ LET key == config.panels[panel_idx][idx]
           config1 == [config EXCEPT !.panels[panel_idx] = remove(@, idx)]
       IN  /\ config' = config1
           /\ disk' = save_config(config1, current_theme)
           /\ last' = Last("unassign", JNull, <<>>, key, panel_idx, 0)
    /\ nwrites' = 1
    /\ pc' = "idle"
    /\ UNCHANGED <<data, current_theme, rx, theme_rx, published, argv, delivered,
                   data_sub, theme_sub, repaint, show_theme_selector>>

\* "Unassign" on a card of render_panel: to_remove = Some(idx).  A card is
\* drawn only for a key that has a Feed Store entry.
UiUnassign(panel_idx, idx) ==
    /\ pc = "ui"
    /\ idx \in 1..Len(config.panels[panel_idx])
    /\ config.panels[panel_idx][idx] \in DOMAIN data
    /\ LET key == config.panels[panel_idx][idx]
           config1 == [config EXCEPT !.panels[panel_idx] = remove(@, idx)]
           config2 == [config1 EXCEPT !.unassigned = Append(@, key)]
       IN  /\ config' = config2
           /\ disk' = save_config(config2, current_theme)
           /\ last' = Last("unassign", JNull, <<>>, key, panel_idx, 0)
    /\ nwrites' = 1
    /\ pc' = "idle"
    /\ UNCHANGED <<data, current_theme, rx, theme_rx, published, argv, delivered,
                   data_sub, theme_sub, repaint, show_theme_selector>>

\* A "Move to" that puts the key at the head of the target panel.
UiMove_InsertsFirst(panel_idx, idx, target_panel) ==
    /\ pc = "ui"
    /\ target_panel # panel_idx
    /\ idx \in 1..Len(config.panels[panel_idx])
    /\ config.panels[panel_idx][idx] \in DOMAIN data
    /\ LET key == config.panels[panel_idx][idx]
           config1 == [config EXCEPT !.panels[panel_idx] = remove(@, idx)]
           config2 == [config1 EXCEPT !.panels[target_panel] = <<key>> \o @]
       IN  /\ config' = config2
           /\ disk' = save_config(config2, current_theme)
           /\ last' = Last("move", JNull, <<>>, key, panel_idx, target_panel)
    /\ nwrites' = 1
    /\ pc' = "idle"
    /\ UNCHANGED <<data, current_theme, rx, theme_rx, published, argv, delivered,
                   data_sub, theme_sub, repaint, show_theme_selector>>

\* "Move to" on a card of render_panel: to_move = Some((idx, target_panel)).
UiMove(panel_idx, idx, target_panel) ==
    /\ pc = "ui"
    /\ target_panel # panel_idx
    /\ idx \in 1..Len(config.panels[panel_idx])
    /\ config.panels[panel_idx][idx] \in DOMAIN data
    /\ LET key == config.panels[panel_idx][idx]
           config1 == [config EXCEPT !.panels[panel_idx] = remove(@, idx)]
           config2 == [config1 EXCEPT !.panels[target_panel] = Append(@, key)]
       IN  /\ config' = config2
           /\ disk' = save_config(config2, current_theme)
           /\ last' = Last("move", JNull, <<>>, key, panel_idx, target_panel)
    /\ nwrites' = 1
    /\ pc' = "idle"
    /\ UNCHANGED <<data, current_theme, rx, theme_rx, published, argv, delivered,
                   data_sub, theme_sub, repaint, show_theme_selector>>

\* ------------------------------------------------------------------------
\* The subscriber threads spawned by new().  A subscriber is at a position
\*   create -> connect -> subscribe -> loop,   or terminated,   or off (the
\* Theme Subscriber when theme sync is disabled at startup: never spawned),
\* and its transport link is none, up, down (connection lost) or resumed
\* (reconnected by the transport without the subscription).
\* ------------------------------------------------------------------------
Sub(p, l) == [pc |-> p, link |-> l]

\* mqtt::Client::new(create_opts).expect(..): a failure panics the thread.
sub_create(s, ok) == IF ok THEN Sub("connect", "none") ELSE Sub("terminated", "none")

\* if let Err(e) = cli.connect(conn_opts) { eprintln!(..); return; }
sub_connect(s, ok) == IF ok THEN Sub("subscribe", "up") ELSE Sub("terminated", "none")

\* if let Err(e) = cli.subscribe(topic, 1) { eprintln!(..); return; }
sub_subscribe(s, ok) == IF ok THEN Sub("loop", "up") ELSE Sub("terminated", "none")

\* A loop that ends when the connection is lost.
sub_disconnected_Exits(s) == Sub("terminated", "none")

\* rx_mqtt.iter() yields None: the else branch prints and the loop goes on.
sub_disconnected(s) == Sub(s.pc, "down")

\* automatic_reconnect(1 s, 30 s): the transport reconnects by itself.  The
\* session is clean and the thread subscribes only before its loop, so
\* whether messages flow again is the transport's doing: both outcomes.
sub_reconnected(s, resubscribed) == Sub(s.pc, IF resubscribed THEN "up" ELSE "resumed")

\* The loop is handed a message only over a link that holds the subscription.
receiving(s) == s.pc = "loop" /\ s.link = "up"

MaxQueue == 2

DataCreate(ok) ==
    /\ data_sub.pc = "create"
    /\ data_sub' = sub_create(data_sub, ok)
    /\ UNCHANGED <<data, config, current_theme, disk, rx, theme_rx, pc, nwrites, last,
                   published, argv, delivered, theme_sub, repaint, show_theme_selector>>

\* A connect whose failure ends the process: the other thread and the
\* consumer stop with it.
DataConnect_ExitsProcess(ok) ==
    /\ data_sub.pc = "connect"
    /\ data_sub' = sub_connect(data_sub, ok)
    /\ theme_sub' = IF ok THEN theme_sub ELSE Sub("terminated", "none")
    /\ pc' = IF ok THEN pc ELSE "exited"
    /\ UNCHANGED <<data, config, current_theme, disk, rx, theme_rx, nwrites, last,
                   published, argv, delivered, repaint, show_theme_selector>>

DataConnect(ok) ==
    /\ data_sub.pc = "connect"
    /\ data_sub' = sub_connect(data_sub, ok)
    /\ UNCHANGED <<data, config, current_theme, disk, rx, theme_rx, pc, nwrites, last,
                   published, argv, delivered, theme_sub, repaint, show_theme_selector>>

DataSubscribe(ok) ==
    /\ data_sub.pc = "subscribe"
    /\ data_sub' = sub_subscribe(data_sub, ok)
    /\ UNCHANGED <<data, config, current_theme, disk, rx, theme_rx, pc, nwrites, last,
                   published, argv, delivered, theme_sub, repaint, show_theme_selector>>

\* A lost connection that empties the Feed Store.
DataDisconnect_ClearsStore ==
    /\ data_sub.pc = "loop"
    /\ data_sub.link \in {"up", "resumed"}
    /\ data_sub' = sub_disconnected(data_sub)
    /\ data' = <<>>
    /\ UNCHANGED <<config, current_theme, disk, rx, theme_rx, pc, nwrites, last,
                   published, argv, delivered, theme_sub, repaint, show_theme_selector>>

DataDisconnect ==
    /\ data_sub.pc = "loop"
    /\ data_sub.link \in {"up", "resumed"}
    /\ data_sub' = sub_disconnected(data_sub)
    /\ UNCHANGED <<data, config, current_theme, disk, rx, theme_rx, pc, nwrites, last,
                   published, argv, delivered, theme_sub, repaint, show_theme_selector>>

DataReconnect(resubscribed) ==
    /\ data_sub.pc = "loop"
    /\ data_sub.link = "down"
    /\ data_sub' = sub_reconnected(data_sub, resubscribed)
    /\ UNCHANGED <<data, config, current_theme, disk, rx, theme_rx, pc, nwrites, last,
                   published, argv, delivered, theme_sub, repaint, show_theme_selector>>

\* A forward that drops a message equal to the one queued just before it.
data_send_Dedup(queue, msg) ==
    IF queue # <<>> /\ queue[Len(queue)] = msg THEN queue ELSE Append(queue, msg)

\* let _ = tx.send(msg);
data_send(queue, msg) == Append(queue, msg)

\* A message published on the data topic arrives and is forwarded.
DataForward(msg) ==
    /\ receiving(data_sub)
    /\ Len(rx) < MaxQueue
    /\ rx' = data_send(rx, msg)
    /\ repaint' = TRUE
    /\ UNCHANGED <<data, config, current_theme, disk, theme_rx, pc, nwrites, last,
                   published, argv, delivered, data_sub, theme_sub, show_theme_selector>>

\* The next message of a fixed publication sequence arrives and is forwarded.
DataDeliver ==
    /\ receiving(data_sub)
    /\ delivered < Len(published)
    /\ rx' = data_send(rx, published[delivered + 1])
    /\ delivered' = delivered + 1
    /\ repaint' = TRUE
    /\ UNCHANGED <<data, config, current_theme, disk, theme_rx, pc, nwrites, last,
                   published, argv, data_sub, theme_sub, show_theme_selector>>

\* ------------------------------------------------------------------------
\* The Theme Subscriber.  A message of the theme connection is a topic and a
\* payload; the payload is a JSON value or Garbage (not JSON).
\* ------------------------------------------------------------------------
\* let theme_topic = config.mqtt_theme_topic.clone(): the thread's copy, taken
\* when it is spawned.  No action of this model changes the topic of the
\* configuration after startup, so the copy is read off config.
theme_topic == config.mqtt_theme_topic

\* cli.subscribe(&theme_topic, 1): the broker delivers the messages whose
\* topic matches the subscribed filter, level by level; "+" stands for any
\* one level and a final "#" for any remaining levels.
RECURSIVE topic_matches(_, _)
topic_matches(filter, topic) ==
    IF filter = <<>> THEN topic = <<>>
    ELSE IF Head(filter) = "#" THEN TRUE
    ELSE IF topic = <<>> THEN FALSE
    ELSE /\ Head(filter) = "+" \/ Head(filter) = Head(topic)
         /\ topic_matches(Tail(filter), Tail(topic))

ThemeMsg(topic, payload) == [topic |-> topic, payload |-> payload]

\* serde_json::from_str::<serde_json::Value>
from_str_value(payload) == IF payload = Garbage THEN None ELSE Some(payload)

\* json.get("theme").and_then(|t| t.as_str())
get_theme_str(json) ==
    IF is_object(json) /\ contains_key(json.v, "theme") /\ json.v["theme"].t = "str"
    THEN Some(json.v["theme"].v)
    ELSE None

\* A message loop that does not compare the message's topic with theme_topic.
theme_name_of_AnyTopic(msg) ==
    IF from_str_value(msg.payload) = None THEN None
    ELSE get_theme_str(from_str_value(msg.payload).v)

\* The theme name (if any) the message loop sends for one received message.
theme_name_of(msg) ==
    IF msg.topic # theme_topic THEN None
    ELSE IF from_str_value(msg.payload) = None THEN None
    ELSE get_theme_str(from_str_value(msg.payload).v)

ThemeCreate(ok) ==
    /\ theme_sub.pc = "create"
    /\ theme_sub' = sub_create(theme_sub, ok)
    /\ UNCHANGED <<data, config, current_theme, disk, rx, theme_rx, pc, nwrites, last,
                   published, argv, delivered, data_sub, repaint, show_theme_selector>>

ThemeConnect(ok) ==
    /\ theme_sub.pc = "connect"
    /\ theme_sub' = sub_connect(theme_sub, ok)
    /\ UNCHANGED <<data, config, current_theme, disk, rx, theme_rx, pc, nwrites, last,
                   published, argv, delivered, data_sub, repaint, show_theme_selector>>

ThemeSubscribe(ok) ==
    /\ theme_sub.pc = "subscribe"
    /\ theme_sub' = sub_subscribe(theme_sub, ok)
    /\ UNCHANGED <<data, config, current_theme, disk, rx, theme_rx, pc, nwrites, last,
                   published, argv, delivered, data_sub, repaint, show_theme_selector>>

ThemeDisconnect ==
    /\ theme_sub.pc = "loop"
    /\ theme_sub.link \in {"up", "resumed"}
    /\ theme_sub' = sub_disconnected(theme_sub)
    /\ UNCHANGED <<data, config, current_theme, disk, rx, theme_rx, pc, nwrites, last,
                   published, argv, delivered, data_sub, repaint, show_theme_selector>>

ThemeReconnect(resubscribed) ==
    /\ theme_sub.pc = "loop"
    /\ theme_sub.link = "down"
    /\ theme_sub' = sub_reconnected(theme_sub, resubscribed)
    /\ UNCHANGED <<data, config, current_theme, disk, rx, theme_rx, pc, nwrites, last,
                   published, argv, delivered, data_sub, repaint, show_theme_selector>>

\* The body of the theme message loop for one received message.
theme_loop_body(msg) ==
    LET theme_name == theme_name_of(msg)
    IN  IF theme_name # None
        THEN /\ theme_rx' = Append(theme_rx, theme_name.v)
             /\ repaint' = TRUE
        ELSE UNCHANGED <<theme_rx, repaint>>

\* A message loop that applies the theme itself instead of queueing its name.
ThemeForward_AppliesTheme(msg) ==
    /\ receiving(theme_sub)
    /\ topic_matches(theme_topic, msg.topic)
    /\ Len(theme_rx) < MaxQueue
    /\ current_theme' = IF theme_name_of(msg) = None
                         \/ kiosk_theme(theme_name_of(msg).v) = ""
                        THEN current_theme
                        ELSE kiosk_theme(theme_name_of(msg).v)
    /\ repaint' = TRUE
    /\ UNCHANGED <<data, config, disk, rx, theme_rx, pc, nwrites, last,
                   published, argv, delivered, data_sub, theme_sub, show_theme_selector>>

\* A message arrives on the theme connection.
ThemeForward(msg) ==
    /\ receiving(theme_sub)
    /\ topic_matches(theme_topic, msg.topic)
    /\ Len(theme_rx) < MaxQueue
    /\ theme_loop_body(msg)
    /\ UNCHANGED <<data, config, current_theme, disk, rx, pc, nwrites, last,
                   published, argv, delivered, data_sub, theme_sub, show_theme_selector>>

\* The next message of a fixed publication sequence arrives on the theme
\* connection.
ThemeDeliver ==
    /\ receiving(theme_sub)
    /\ delivered < Len(published)
    /\ theme_loop_body(published[delivered + 1])
    /\ delivered' = delivered + 1
    /\ UNCHANGED <<data, config, current_theme, disk, rx, pc, nwrites, last,
                   published, argv, data_sub, theme_sub, show_theme_selector>>

\* ------------------------------------------------------------------------
\* The theme selector window
\* ------------------------------------------------------------------------
\* create_default_themes(): the names of the Theme Catalog, in order
themes ==
    <<"Light", "Dark", "Solarized", "After Dark", "Her", "Forest", "Sky", "Clays",
      "Stones">>

\* self.themes.iter().find(|t| t.name == self.current_theme)
\*     .cloned().unwrap_or_default(): the theme in use, and whether it is the
\* hardcoded default taken because no theme has the name.
get_current_theme(self_current_theme) ==
    IF \E i \in 1..Len(themes) : themes[i] = self_current_theme
    THEN [name |-> self_current_theme, fallback |-> FALSE]
    ELSE [name |-> "Dark", fallback |-> TRUE]

\* The palette button of the top bar (or the window's close button).
UiToggleSelector ==
    /\ pc = "ui"
    /\ show_theme_selector' = ~show_theme_selector
    /\ pc' = "idle"
    /\ UNCHANGED <<data, config, current_theme, disk, rx, theme_rx, nwrites, last,
                   published, argv, delivered, data_sub, theme_sub, repaint>>

\* A theme of the catalog is clicked in the selector: theme_changed.
UiSelectTheme(i) ==
    /\ pc = "ui"
    /\ show_theme_selector
    /\ i \in 1..Len(themes)
    /\ LET new_theme == themes[i]
       IN  /\ current_theme' = new_theme
           /\ disk' = save_config(config, new_theme)
           /\ last' = Last("select", JNull, <<>>, new_theme, 0, 0)
    /\ nwrites' = 1
    /\ pc' = "idle"
    /\ UNCHANGED <<data, config, rx, theme_rx, published, argv, delivered, data_sub,
                   theme_sub, repaint, show_theme_selector>>

\* A checkbox that takes effect at once: it starts the Theme Subscriber when
\* switched on and ends it when switched off.
UiToggleSync_AppliesAtOnce ==
    /\ pc = "ui"
    /\ show_theme_selector
    /\ config' = [config EXCEPT !.mqtt_theme_sync = ~@]
    /\ disk' = save_config(config', current_theme)
    /\ last' = Last("sync", JNull, <<>>, <<>>, 0, 0)
    /\ nwrites' = 1
    /\ pc' = "idle"
    /\ theme_sub' = IF config'.mqtt_theme_sync THEN Sub("create", "none")
                    ELSE Sub("off", "none")
    /\ UNCHANGED <<data, current_theme, rx, theme_rx, published, argv, delivered,
                   data_sub, repaint, show_theme_selector>>

\* The "Sync via MQTT" checkbox of the selector window.
UiToggleSync ==
    /\ pc = "ui"
    /\ show_theme_selector
    /\ config' = [config EXCEPT !.mqtt_theme_sync = ~@]
    /\ disk' = save_config(config', current_theme)
    /\ last' = Last("sync", JNull, <<>>, <<>>, 0, 0)
    /\ nwrites' = 1
    /\ pc' = "idle"
    /\ UNCHANGED <<data, current_theme, rx, theme_rx, published, argv, delivered,
                   data_sub, theme_sub, repaint, show_theme_selector>>

\* ------------------------------------------------------------------------
\* Spec: ingestion and the ledger operations of the UI, theme sync disabled.
\* ------------------------------------------------------------------------
SpecMessages ==
    {Msg1(K_weather_home, WeatherArr),
     Msg2(K_cronos_a, OpaqueObj, K_weather_home, WeatherArr2),
     MsgMixed,
     Garbage,
     WeatherArr}

\* Ledgers a previous run may have left in config.toml: no key occurs twice.
InitLedgers ==
    {[panels |-> <<<<>>, <<>>, <<>>>>, unassigned |-> <<>>],
     [panels |-> <<<<K_weather_home>>, <<>>, <<>>>>, unassigned |-> <<>>],
     [panels |-> <<<<>>, <<K_cronos_a>>, <<>>>>, unassigned |-> <<K_weather_home>>]}

\* Nothing received or taken yet.
NoLog == [data_recv |-> <<>>, data_taken |-> <<>>, theme_recv |-> <<>>,
          theme_taken |-> <<>>, mark |-> [data |-> 0, theme |-> 0]]

InitWith(c, f) ==
    /\ data = <<>>
    /\ config = effective_config(c, NoCli)
    /\ current_theme = c.current_theme
    /\ disk = c
    /\ rx = <<>>
    /\ theme_rx = <<>>
    /\ pc = "idle"
    /\ nwrites = 0
    /\ last = NoLast
    /\ published = f
    /\ delivered = 0
    /\ argv = NoCli
    /\ data_sub = Sub("loop", "up")
    /\ theme_sub = Sub("off", "none")
    /\ repaint = FALSE
    /\ show_theme_selector = FALSE
    /\ log = NoLog

Init ==
    \E l \in InitLedgers :
        InitWith([DefaultConfig EXCEPT !.panels = l.panels, !.unassigned = l.unassigned],
                 <<>>)

Next ==
    \/ (\E msg \in SpecMessages : DataForward(msg)) /\ UNCHANGED log
    \/ UpdateTheme /\ UNCHANGED log
    \/ UpdateData /\ UNCHANGED log
    \/ UpdateDrained /\ UNCHANGED log
    \/ UiNoClick /\ UNCHANGED log
    \/ (\E idx \in 1..2, p \in Panels : UiAssign(idx, p)) /\ UNCHANGED log
    \/ (\E p \in Panels, idx \in 1..2 : UiUnassign(p, idx)) /\ UNCHANGED log
    \/ (\E p \in Panels, idx \in 1..2, q \in Panels : UiMove(p, idx, q))
           /\ UNCHANGED log

Spec == Init /\ [][Next]_vars

\* ------------------------------------------------------------------------
\* SpecDecode: two messages published in a row under one feed key, the key
\* and the two values drawn from the sets below; a fresh configuration.
\* ------------------------------------------------------------------------
DecodeKeys ==
    {K_gtfs_1, K_gbfs_1, K_weather_home, K_aqi_1, K_ephem_1, K_cal_1, K_tidal_1,
     K_cronos_a, K_gitlab_1, K_pkg_1, K_const_1,
     K_foo_x, K_gtfs, K_xgtfs_1, K_Weather_home}

DecodeValues ==
    {JNull, EmptyObj, EmptyArr, Scalar,
     WeatherReport, WeatherArr, WeatherArr2, WeatherBadArr, GtfsArr, OpaqueObj, DataOnly,
     Envelope(WeatherArr, QueryOk), Envelope(WeatherArr2, QueryOther),
     Envelope(WeatherArr, QueryBad), Envelope(WeatherReport, QueryOk),
     Envelope(JNull, QueryOk), Envelope(EmptyArr, QueryOk),
     Envelope(OpaqueObj, QueryOk), Envelope(OpaqueObj, QueryBad),
     Envelope(GtfsArr, Scalar)}

InitDecode ==
    \E k \in DecodeKeys, v1 \in DecodeValues, v2 \in DecodeValues :
        InitWith(DefaultConfig, <<Msg1(k, v1), Msg1(k, v2)>>)

NextDecode ==
    \/ DataDeliver /\ UNCHANGED log
    \/ UpdateTheme /\ UNCHANGED log
    \/ UpdateData /\ UNCHANGED log
    \/ UpdateDrained /\ UNCHANGED log
    \/ UiNoClick /\ UNCHANGED log

SpecDecode == InitDecode /\ [][NextDecode]_vars

\* ------------------------------------------------------------------------
\* SpecTheme: theme sync enabled and its subscriber in its loop; two theme
\* messages are published in a row, the first name drawn from every alias in
\* three letter cases and from names outside the table, while the user may
\* open the selector and pick a theme of the catalog.
\* ------------------------------------------------------------------------
UpperTable ==
    [a |-> "A", b |-> "B", c |-> "C", d |-> "D", e |-> "E", f |-> "F", g |-> "G",
     h |-> "H", i |-> "I", j |-> "J", k |-> "K", l |-> "L", m |-> "M", n |-> "N",
     o |-> "O", p |-> "P", q |-> "Q", r |-> "R", s |-> "S", t |-> "T", u |-> "U",
     v |-> "V", w |-> "W", x |-> "X", y |-> "Y", z |-> "Z"]

Upper(ch) == IF ch \in DOMAIN UpperTable THEN UpperTable[ch] ELSE ch

\* SOLARIZED
AllCaps(name) == [i \in 1..Len(name) |-> Upper(name[i])]

\* Solarized
Capitalized(name) == [i \in 1..Len(name) |-> IF i = 1 THEN Upper(name[i]) ELSE name[i]]

Aliases ==
    {N_light, N_light_soft, N_dark, N_dark_soft, N_dark_dimmed, N_after_dark,
     N_her, N_forest, N_sky, N_clays, N_stones, N_solarized}

N_neon == <<"n", "e", "o", "n">>

\* "After Dark", the catalog's name, with a space
N_After_Dark == <<"A", "f", "t", "e", "r", " ", "D", "a", "r", "k">>

\* Names that are no alias in any letter case.
NonAliases ==
    {N_neon, <<>>, N_After_Dark, N_dark \o <<" ">>, N_dark \o <<"e", "r">>,
     N_solarized \o <<"-">> \o N_dark, <<"d", "a", "r">>}

FirstNames ==
    Aliases \cup {AllCaps(n) : n \in Aliases} \cup {Capitalized(n) : n \in Aliases}
        \cup NonAliases

SecondNames == {N_dark, N_solarized, N_neon}

ThemePayload(name) == ThemeMsg(default_theme_mqtt_topic, JObj([theme |-> JStr(name)]))

InitTheme ==
    \E n1 \in FirstNames, n2 \in SecondNames :
        /\ data = <<>>
        /\ disk = [DefaultConfig EXCEPT !.mqtt_theme_sync = TRUE]
        /\ config = effective_config(disk, NoCli)
        /\ current_theme = config.current_theme
        /\ rx = <<>>
        /\ theme_rx = <<>>
        /\ pc = "idle"
        /\ nwrites = 0
        /\ last = NoLast
        /\ published = <<ThemePayload(n1), ThemePayload(n2)>>
        /\ delivered = 0
        /\ argv = NoCli
        /\ data_sub = Sub("loop", "up")
        /\ theme_sub = Sub("loop", "up")
        /\ repaint = FALSE
        /\ show_theme_selector = FALSE
        /\ log = NoLog

NextTheme ==
    \/ ThemeDeliver /\ UNCHANGED log
    \/ UpdateTheme /\ UNCHANGED log
    \/ UpdateDrained /\ UNCHANGED log
    \/ UiNoClick /\ UNCHANGED log
    \/ UiToggleSelector /\ UNCHANGED log
    \/ (\E i \in 1..Len(themes) : UiSelectTheme(i)) /\ UNCHANGED log

SpecTheme == InitTheme /\ [][NextTheme]_vars

\* ------------------------------------------------------------------------
\* SpecNet: both subscriber threads from their spawn on (each setup step may
\* fail), connections that are lost and resumed, messages on both topics and
\* the consumer's frame ticks.  log records the items the two rx_mqtt
\* iterators yield (Some(msg), or None for a lost connection) and what the
\* consumer takes off the two queues; MaxRecv bounds the items yielded.
\* ------------------------------------------------------------------------
MaxRecv == 3

NetDataMessages == {Msg1(K_weather_home, WeatherArr), Garbage}

NetThemeMessages ==
    {ThemePayload(N_solarized), ThemePayload(N_neon),
     ThemeMsg(default_theme_mqtt_topic, Garbage)}

Yielded == Len(log.data_recv) + Len(log.theme_recv)

InitNet ==
    \E sync \in BOOLEAN :
        /\ data = <<>>
        /\ disk = [DefaultConfig EXCEPT !.mqtt_theme_sync = sync]
        /\ config = effective_config(disk, NoCli)
        /\ current_theme = config.current_theme
        /\ rx = <<>>
        /\ theme_rx = <<>>
        /\ pc = "idle"
        /\ nwrites = 0
        /\ last = NoLast
        /\ published = <<>>
        /\ delivered = 0
        /\ argv = NoCli
        /\ data_sub = Sub("create", "none")
        /\ theme_sub = IF sync THEN Sub("create", "none") ELSE Sub("off", "none")
        /\ repaint = FALSE
        /\ show_theme_selector = FALSE
        /\ log = NoLog

\* The consumer's steps, with what they take off the queues logged.
TickNet ==
    \/ /\ UpdateTheme
       /\ log' = IF theme_rx = <<>> THEN log
                 ELSE [log EXCEPT !.theme_taken = Append(@, last'.key)]
    \/ /\ UpdateData
       /\ log' = [log EXCEPT !.data_taken = Append(@, last'.msg)]
    \/ UpdateDrained /\ UNCHANGED log
    \/ UiNoClick /\ UNCHANGED log

NextNet ==
    \/ (\E ok \in BOOLEAN : DataCreate(ok)) /\ UNCHANGED log
    \/ (\E ok \in BOOLEAN : DataConnect(ok)) /\ UNCHANGED log
    \/ (\E ok \in BOOLEAN : DataSubscribe(ok)) /\ UNCHANGED log
    \/ /\ Yielded < MaxRecv
       /\ DataDisconnect
       /\ log' = [log EXCEPT !.data_recv = Append(@, None)]
    \/ (\E resubscribed \in BOOLEAN : DataReconnect(resubscribed)) /\ UNCHANGED log
    \/ \E msg \in NetDataMessages :
          /\ Yielded < MaxRecv
          /\ DataForward(msg)
          /\ log' = [log EXCEPT !.data_recv = Append(@, Some(msg))]
    \/ (\E ok \in BOOLEAN : ThemeCreate(ok)) /\ UNCHANGED log
    \/ (\E ok \in BOOLEAN : ThemeConnect(ok)) /\ UNCHANGED log
    \/ (\E ok \in BOOLEAN : ThemeSubscribe(ok)) /\ UNCHANGED log
    \/ /\ Yielded < MaxRecv
       /\ ThemeDisconnect
       /\ log' = [log EXCEPT !.theme_recv = Append(@, None)]
    \/ (\E resubscribed \in BOOLEAN : ThemeReconnect(resubscribed)) /\ UNCHANGED log
    \/ \E msg \in NetThemeMessages :
          /\ Yielded < MaxRecv
          /\ ThemeForward(msg)
          /\ log' = [log EXCEPT !.theme_recv = Append(@, Some(msg))]
    \/ TickNet

SpecNet == InitNet /\ [][NextNet]_vars

\* update() runs from its first statement to its last without waiting for
\* anything: a tick that has begun takes its next step.
SpecNetFair == SpecNet /\ WF_vars(pc # "idle" /\ TickNet)

\* ------------------------------------------------------------------------
\* SpecStartup: the program is started with a config.toml and a command line
\* drawn from the sets below; new() builds the application, the Theme
\* Subscriber (if spawned) sets up and the consumer runs frame ticks.
\* ------------------------------------------------------------------------
\* ApollosKiosk::new: load, merge, spawn the subscriber threads.
Startup ==
    /\ pc = "new"
    /\ LET cfg == effective_config(disk, argv)
       IN  /\ config' = cfg
           /\ current_theme' = cfg.current_theme
           /\ theme_sub' = IF cfg.mqtt_theme_sync THEN Sub("create", "none")
                           ELSE Sub("off", "none")
    /\ data_sub' = Sub("create", "none")
    /\ data' = <<>>
    /\ show_theme_selector' = FALSE
    /\ pc' = "idle"
    /\ UNCHANGED <<disk, rx, theme_rx, nwrites, last, published, delivered, argv,
                   repaint>>

PersistedConfigs ==
    {NoFile} \cup
    {[DefaultConfig EXCEPT !.mqtt_theme_sync = sync, !.mqtt_theme_host = host,
                           !.mqtt_theme_username = username,
                           !.mqtt_theme_password = password,
                           !.mqtt_theme_topic = topic] :
        sync \in BOOLEAN,
        host \in {default_theme_mqtt_host, "tcp://broker:1883"},
        username \in {None, Some("kiosk")},
        password \in {None, Some("secret")},
        topic \in {default_theme_mqtt_topic, <<"home", "theme">>}}

CommandLines ==
    {Cli(sync, host, username, password, topic) :
        sync \in {None, Some(TRUE), Some(FALSE)},
        host \in {None, Some("tcp://other:2883")},
        username \in {None, Some("cli-user")},
        password \in {None, Some("cli-pass")},
        topic \in {None, Some(<<"cli", "theme">>)}}

InitStartup ==
    \E file \in PersistedConfigs, cli \in CommandLines :
        /\ data = <<>>
        /\ disk = file
        /\ argv = cli
        /\ config = DefaultConfig
        /\ current_theme = DefaultConfig.current_theme
        /\ rx = <<>>
        /\ theme_rx = <<>>
        /\ pc = "new"
        /\ nwrites = 0
        /\ last = NoLast
        /\ published = <<>>
        /\ delivered = 0
        /\ data_sub = Sub("off", "none")
        /\ theme_sub = Sub("off", "none")
        /\ repaint = FALSE
        /\ show_theme_selector = FALSE
        /\ log = NoLog

NextStartup ==
    \/ Startup /\ UNCHANGED log
    \/ (\E ok \in BOOLEAN : ThemeCreate(ok)) /\ UNCHANGED log
    \/ (\E ok \in BOOLEAN : ThemeConnect(ok)) /\ UNCHANGED log
    \/ (\E ok \in BOOLEAN : ThemeSubscribe(ok)) /\ UNCHANGED log
    \/ UpdateTheme /\ UNCHANGED log
    \/ UpdateDrained /\ UNCHANGED log
    \/ UiNoClick /\ UNCHANGED log

SpecStartup == InitStartup /\ [][NextStartup]_vars

\* ------------------------------------------------------------------------
\* SpecSync: the program is started with theme sync on or off (in config.toml
\* and on the command line) and with the default theme topic or a wildcard
\* filter; the broker delivers theme messages of two topics, the consumer
\* runs frame ticks, and the user opens the selector window, picks themes and
\* toggles the sync checkbox.  log.theme_recv records the messages yielded to
\* the Theme Subscriber.
\* ------------------------------------------------------------------------
T_night == <<"neiam", "sync", "night">>

T_wildcard == <<"neiam", "sync", "#">>

ThemeNotString == JObj([theme |-> JNum("7")])

NoThemeField == JObj([mode |-> JStr("LightRail")])

SyncThemeMessages ==
    {ThemeMsg(topic, payload) :
        topic \in {default_theme_mqtt_topic, T_night},
        payload \in {JObj([theme |-> JStr(N_solarized)]), Garbage, ThemeNotString,
                     NoThemeField}}

\* The themes the user picks in the selector window: "Light" and "Her".
SyncPicks == {1, 5}

InitSync ==
    \E file_sync \in BOOLEAN,
       cli_sync \in {None, Some(TRUE), Some(FALSE)},
       cli_topic \in {None, Some(T_wildcard)} :
        /\ data = <<>>
        /\ disk = [DefaultConfig EXCEPT !.mqtt_theme_sync = file_sync]
        /\ argv = Cli(cli_sync, None, None, None, cli_topic)
        /\ config = DefaultConfig
        /\ current_theme = DefaultConfig.current_theme
        /\ rx = <<>>
        /\ theme_rx = <<>>
        /\ pc = "new"
        /\ nwrites = 0
        /\ last = NoLast
        /\ published = <<>>
        /\ delivered = 0
        /\ data_sub = Sub("off", "none")
        /\ theme_sub = Sub("off", "none")
        /\ repaint = FALSE
        /\ show_theme_selector = FALSE
        /\ log = NoLog

NextSync ==
    \/ Startup /\ UNCHANGED log
    \/ (\E ok \in BOOLEAN : ThemeCreate(ok)) /\ UNCHANGED log
    \/ (\E ok \in BOOLEAN : ThemeConnect(ok)) /\ UNCHANGED log
    \/ (\E ok \in BOOLEAN : ThemeSubscribe(ok)) /\ UNCHANGED log
    \/ \E msg \in SyncThemeMessages :
          /\ Len(log.theme_recv) < MaxRecv
          /\ ThemeForward(msg)
          /\ log' = [log EXCEPT !.theme_recv = Append(@, Some(msg))]
    \/ UpdateTheme /\ UNCHANGED log
    \/ UpdateDrained /\ UNCHANGED log
    \/ UiNoClick /\ UNCHANGED log
    \/ UiToggleSelector /\ UNCHANGED log
    \/ (\E i \in SyncPicks : UiSelectTheme(i)) /\ UNCHANGED log
    \/ UiToggleSync /\ UNCHANGED log

SpecSync == InitSync /\ [][NextSync]_vars

\* ------------------------------------------------------------------------
\* SpecTick: theme sync enabled, both subscribers in their loops; messages
\* arrive on both connections at any moment, before and during a frame tick.
\* log records what is yielded and taken as in SpecNet and, in log.mark, how
\* many data messages and theme names had been enqueued when the tick that
\* is running (or ran last) started.
\* ------------------------------------------------------------------------
TickDataMessages == {Msg1(K_weather_home, WeatherArr), Msg1(K_cronos_a, OpaqueObj)}

TickThemeMessages == {ThemePayload(N_solarized), ThemePayload(N_her)}

InitTick ==
    /\ data = <<>>
    /\ disk = [DefaultConfig EXCEPT !.mqtt_theme_sync = TRUE]
    /\ config = effective_config(disk, NoCli)
    /\ current_theme = config.current_theme
    /\ rx = <<>>
    /\ theme_rx = <<>>
    /\ pc = "idle"
    /\ nwrites = 0
    /\ last = NoLast
    /\ published = <<>>
    /\ delivered = 0
    /\ argv = NoCli
    /\ data_sub = Sub("loop", "up")
    /\ theme_sub = Sub("loop", "up")
    /\ repaint = FALSE
    /\ show_theme_selector = FALSE
    /\ log = NoLog

\* The number of data messages and of theme names enqueued so far: those
\* taken and those waiting.
Enqueued ==
    [data |-> Len(log.data_taken) + Len(rx),
     theme |-> Len(log.theme_taken) + Len(theme_rx)]

\* The consumer's steps with what they take logged; the first step of a tick
\* sets the mark.
TickMarked ==
    \/ /\ UpdateTheme
       /\ log' = [log EXCEPT !.mark = Enqueued,
                             !.theme_taken = IF theme_rx = <<>> THEN @
                                             ELSE Append(@, last'.key)]
    \/ /\ UpdateData
       /\ log' = [log EXCEPT !.data_taken = Append(@, last'.msg)]
    \/ UpdateDrained /\ UNCHANGED log
    \/ UiNoClick /\ UNCHANGED log

NextTick ==
    \/ \E msg \in TickDataMessages :
          /\ Yielded < MaxRecv
          /\ DataForward(msg)
          /\ log' = [log EXCEPT !.data_recv = Append(@, Some(msg))]
    \/ \E msg \in TickThemeMessages :
          /\ Yielded < MaxRecv
          /\ ThemeForward(msg)
          /\ log' = [log EXCEPT !.theme_recv = Append(@, Some(msg))]
    \/ TickMarked

SpecTick == InitTick /\ [][NextTick]_vars

\* ------------------------------------------------------------------------
\* SpecWake: as SpecTick, with a render loop that sleeps between ticks and
\* runs a tick only when a repaint request is pending; nothing else wakes it.
\* ------------------------------------------------------------------------
TickWoken ==
    \/ /\ UpdateThemeOnRepaint
       /\ log' = [log EXCEPT !.mark = Enqueued,
                             !.theme_taken = IF theme_rx = <<>> THEN @
                                             ELSE Append(@, last'.key)]
    \/ /\ UpdateData
       /\ log' = [log EXCEPT !.data_taken = Append(@, last'.msg)]
    \/ UpdateDrained /\ UNCHANGED log
    \/ UiNoClick /\ UNCHANGED log

NextWake ==
    \/ \E msg \in TickDataMessages :
          /\ Yielded < MaxRecv
          /\ DataForward(msg)
          /\ log' = [log EXCEPT !.data_recv = Append(@, Some(msg))]
    \/ \E msg \in TickThemeMessages :
          /\ Yielded < MaxRecv
          /\ ThemeForward(msg)
          /\ log' = [log EXCEPT !.theme_recv = Append(@, Some(msg))]
    \/ TickWoken

SpecWake == InitTick /\ [][NextWake]_vars

\* ------------------------------------------------------------------------
\* SpecStore: one feed key published with values that decode, fail to decode
\* and are empty, beside payloads that are no map; theme messages, a data
\* connection that is lost and comes back, frame ticks and every ledger
\* operation of the UI.  log records what is yielded and taken as in SpecNet.
\* ------------------------------------------------------------------------
StoreDataMessages ==
    {Msg1(K_weather_home, WeatherArr), Msg1(K_weather_home, WeatherBadArr),
     Msg1(K_weather_home, EmptyObj), Garbage}

StoreThemeMessages == {ThemePayload(N_solarized)}

NextStore ==
    \/ \E msg \in StoreDataMessages :
          /\ Yielded < MaxRecv
          /\ DataForward(msg)
          /\ log' = [log EXCEPT !.data_recv = Append(@, Some(msg))]
    \/ /\ Yielded < MaxRecv
       /\ DataDisconnect
       /\ log' = [log EXCEPT !.data_recv = Append(@, None)]
    \/ (\E resubscribed \in BOOLEAN : DataReconnect(resubscribed)) /\ UNCHANGED log
    \/ \E msg \in StoreThemeMessages :
          /\ Yielded < MaxRecv
          /\ ThemeForward(msg)
          /\ log' = [log EXCEPT !.theme_recv = Append(@, Some(msg))]
    \/ TickNet
    \/ (\E idx \in 1..2, p \in Panels : UiAssign(idx, p)) /\ UNCHANGED log
    \/ (\E p \in Panels, idx \in 1..2 : UiUnassign(p, idx)) /\ UNCHANGED log
    \/ (\E p \in Panels, idx \in 1..2, q \in Panels : UiMove(p, idx, q))
           /\ UNCHANGED log

SpecStore == InitTick /\ [][NextStore]_vars

\* ------------------------------------------------------------------------
\* Vocabulary of the properties
\* ------------------------------------------------------------------------
\* The four ledger lists laid end to end.
LedgerKeys(c) == c.panels[1] \o c.panels[2] \o c.panels[3] \o c.unassigned

Count(vec, x) == Cardinality({i \in 1..Len(vec) : vec[i] = x})

InSomePanel(c, key) == \E p \in Panels : Count(c.panels[p], key) > 0

\* The step that takes one message off the data queue and processes it.
IngestStep == pc = "drain" /\ rx # <<>> /\ rx' = Tail(rx)

\* The value a one-key or two-key payload gives a key.
ValueOf(payload, key) == payload.v[key]

\* C1: a ledger that starts without duplicates never holds a feed key twice
\* across panel 0, panel 1, panel 2 and unassigned, whatever messages are
\* ingested and whatever the UI assigns, unassigns or moves.
C1_LedgerNoDuplicates ==
    LET all == LedgerKeys(config)
    IN  \A i, j \in 1..Len(all) : all[i] = all[j] => i = j

\* A key registered by ingestion has been assigned and then moved to another
\* panel while a second key sits in the ledger.
C1_Witness ==
    /\ last.op = "move"
    /\ last.key = K_cronos_a
    /\ K_cronos_a \in DOMAIN data
    /\ Len(LedgerKeys(config)) = 2

\* C2: a key that is in no list and has no entry, published twice with a
\* decodable value and never assigned in between, is in unassigned exactly
\* once after both messages have been processed.
C2_RegisteredExactlyOnce ==
    (/\ delivered = 2
     /\ rx = <<>>
     /\ \A i \in 1..2 : \A k \in PayloadKeys(published[i]) :
           parse_data_entry(k, ValueOf(published[i], k)) # None)
    => \A k \in PayloadKeys(published[1]) :
           /\ Count(config.unassigned, k) = 1
           /\ ~InSomePanel(config, k)

\* Both publications of weather-home decoded and were processed.
C2_Witness ==
    /\ published = <<Msg1(K_weather_home, WeatherArr), Msg1(K_weather_home, WeatherArr2)>>
    /\ delivered = 2
    /\ rx = <<>>
    /\ last.op = "ingest"
    /\ last.msg = published[2]
    /\ config.unassigned = <<K_weather_home>>

\* C3: a key whose value fails to decode keeps the entry it had (or none),
\* keeps its place in the ledger, and does not stop the other keys of the
\* message from being stored; an entry changes only in a step that decodes
\* a value for its key.
C3_FailedDecodeKeepsEntry ==
    [][/\ IngestStep =>
            \A k \in PayloadKeys(Head(rx)) :
                IF parse_data_entry(k, ValueOf(Head(rx), k)) = None
                THEN /\ (k \in DOMAIN data') <=> (k \in DOMAIN data)
                     /\ k \in DOMAIN data => data'[k] = data[k]
                     /\ \A p \in Panels :
                           Count(config'.panels[p], k) = Count(config.panels[p], k)
                     /\ Count(config'.unassigned, k) = Count(config.unassigned, k)
                ELSE /\ k \in DOMAIN data'
                     /\ data'[k] = parse_data_entry(k, ValueOf(Head(rx), k)).v
       /\ \A k \in DOMAIN data :
            (k \notin DOMAIN data' \/ data'[k] # data[k]) =>
                /\ IngestStep
                /\ k \in PayloadKeys(Head(rx))
                /\ parse_data_entry(k, ValueOf(Head(rx), k)) # None
      ]_vars

\* weather-home had an entry, then arrived with a mistyped report beside a
\* decodable cronos-a: the entry is still there and cronos-a was stored.
C3_Witness ==
    /\ last.op = "ingest"
    /\ last.msg = MsgMixed
    /\ K_weather_home \in DOMAIN data
    /\ K_cronos_a \in DOMAIN data
    /\ data[K_cronos_a].content.body = Scalar

IsEmptyValue(value) ==
    \/ value.t = "null"
    \/ value.t = "obj" /\ DOMAIN value.v = {}
    \/ value.t = "arr" /\ Len(value.v) = 0

\* C4: for a key of any prefix, the opaque ones included, a value that is
\* null, {} or [] decodes to nothing, and ingesting it changes neither the
\* Feed Store nor the ledger and writes nothing to disk.
C4_EmptyValueIsNoOp ==
    [][IngestStep =>
          \A k \in PayloadKeys(Head(rx)) :
              IsEmptyValue(ValueOf(Head(rx), k)) =>
                  /\ parse_content_by_prefix(k, ValueOf(Head(rx), k)) = None
                  /\ data' = data
                  /\ config' = config
                  /\ disk' = disk
                  /\ nwrites' = 0
      ]_vars

\* cronos-a had an entry and was then published as {}: the entry is kept.
C4_Witness ==
    /\ last.op = "ingest"
    /\ last.msg = Msg1(K_cronos_a, EmptyObj)
    /\ K_cronos_a \in DOMAIN data
    /\ nwrites = 0

KnownPrefixes ==
    {P_gtfs, P_gbfs, P_weather, P_aqi, P_ephem, P_cal, P_tidal,
     P_cronos, P_gitlab, P_pkg, P_const}

Recognized(key) == \E prefix \in KnownPrefixes : starts_with(key, prefix)

\* C5: a key with none of the eleven prefixes decodes to nothing whatever its
\* value, bare or in an envelope, so no such key is ever in the Feed Store
\* or appended to unassigned.
C5_UnknownPrefixDropped ==
    /\ \A k \in DOMAIN data : Recognized(k)
    /\ \A i \in 1..Len(config.unassigned) : Recognized(config.unassigned[i])
    /\ last.op = "ingest" =>
          \A k \in DOMAIN last.decoded : ~Recognized(k) => last.decoded[k] = None

\* foo-x was published bare and then in a valid envelope; nothing was stored.
C5_Witness ==
    /\ published = <<Msg1(K_foo_x, OpaqueObj), Msg1(K_foo_x, Envelope(OpaqueObj, QueryOk))>>
    /\ delivered = 2
    /\ rx = <<>>
    /\ last.op = "ingest"
    /\ last.msg = published[2]
    /\ data = <<>>
    /\ config.unassigned = <<>>

\* C6: a payload that is not a JSON object is dropped whole: the step that
\* takes it off the queue changes neither the Feed Store, the ledger nor the
\* persisted configuration, and the drain loop goes on with the next message.
C6_BadPayloadDiscarded ==
    [][(IngestStep /\ Head(rx).t # "obj") =>
          /\ data' = data
          /\ config' = config
          /\ disk' = disk
          /\ nwrites' = 0
          /\ pc' = "drain"
      ]_vars

\* A payload was just dropped, the store holds an entry and another message
\* waits in the queue.
C6_Witness ==
    /\ last.op = "discard"
    /\ last.msg = Garbage
    /\ pc = "drain"
    /\ rx # <<>>
    /\ data # <<>>

\* The entry one weather report decodes to: the report's five fields, no query.
WeatherEntry ==
    [content |->
        [variant |-> "Weather",
         body |-> <<[temp |-> JNum("72.5"), feel |-> JNum("70.1"),
                     weather |-> JStr("Clear"),
                     wind |-> JObj([speed |-> JNum("5")]), hum |-> JNum("40")]>>],
     query_info |-> None]

\* C7 as stated: the weather report given as a bare object is stored as one
\* Weather entry without Query Info and weather-home is registered.
C7_BareWeatherObjectStored ==
    (last.op = "ingest" /\ last.msg = Msg1(K_weather_home, WeatherReport)) =>
        /\ K_weather_home \in DOMAIN data
        /\ data[K_weather_home] = WeatherEntry
        /\ Count(config.unassigned, K_weather_home) = 1

\* C7, amended: the report inside a one-element array is stored as one
\* Weather entry without Query Info and weather-home is registered in
\* unassigned; the same report as a bare object decodes to nothing.
C7_WeatherArrayStored ==
    last.op = "ingest" =>
        /\ last.msg = Msg1(K_weather_home, WeatherArr) =>
              /\ K_weather_home \in DOMAIN data
              /\ data[K_weather_home] = WeatherEntry
              /\ Count(config.unassigned, K_weather_home) = 1
        /\ last.msg = Msg1(K_weather_home, WeatherReport) =>
              last.decoded[K_weather_home] = None

\* The bare object was published first and stored nothing; the array that
\* followed was stored and registered.
C7_Witness ==
    /\ published = <<Msg1(K_weather_home, WeatherReport), Msg1(K_weather_home, WeatherArr)>>
    /\ delivered = 2
    /\ rx = <<>>
    /\ last.op = "ingest"
    /\ last.msg = published[2]
    /\ data[K_weather_home] = WeatherEntry
    /\ config.unassigned = <<K_weather_home>>

EnvelopeShaped(value) ==
    /\ value.t = "obj"
    /\ "data" \in DOMAIN value.v
    /\ "query" \in DOMAIN value.v

\* C8: an envelope whose query decodes and whose data decodes under the key's
\* prefix yields the decode of data together with Query Info named as the
\* envelope's query.name; a value that is no envelope and decodes yields an
\* entry without Query Info.
C8_EnvelopeCarriesQueryName ==
    last.op = "ingest" =>
        \A k \in DOMAIN last.decoded :
            LET value == ValueOf(last.msg, k)
                entry == last.decoded[k]
            IN  IF EnvelopeShaped(value)
                THEN (/\ from_value_QueryInfo(value.v.query) # None
                      /\ parse_content_by_prefix(k, value.v.data) # None) =>
                        /\ entry # None
                        /\ entry.v.content = parse_content_by_prefix(k, value.v.data).v
                        /\ entry.v.query_info # None
                        /\ entry.v.query_info.v.name = value.v.query.v.name.v
                        /\ data[k] = entry.v
                ELSE entry # None =>
                        /\ entry.v.query_info = None
                        /\ entry.v.content = parse_content_by_prefix(k, value).v

\* A weather envelope named "Home" was ingested and stored with that name.
C8_Witness ==
    /\ last.op = "ingest"
    /\ last.msg = Msg1(K_weather_home, Envelope(WeatherArr, QueryOk))
    /\ data[K_weather_home].content = WeatherEntry.content
    /\ data[K_weather_home].query_info = Some([name |-> "Home"])

\* C9: an envelope-shaped value whose query or data fails to decode yields
\* nothing; the outer object is never decoded as a bare value, not even for
\* an opaque prefix that would have wrapped it.
C9_EnvelopeNeverFallsThrough ==
    last.op = "ingest" =>
        \A k \in DOMAIN last.decoded :
            LET value == ValueOf(last.msg, k)
            IN  (/\ EnvelopeShaped(value)
                 /\ \/ from_value_QueryInfo(value.v.query) = None
                    \/ IsEmptyValue(value.v.data)
                    \/ parse_content_by_prefix(k, value.v.data) = None)
                => /\ last.decoded[k] = None
                   /\ k \in DOMAIN data => data[k].content.body # value

\* cronos-a arrived in an envelope with null data, then in one whose query
\* has no name: nothing was stored either time.
C9_Witness ==
    /\ published = <<Msg1(K_cronos_a, Envelope(JNull, QueryOk)),
                     Msg1(K_cronos_a, Envelope(OpaqueObj, QueryBad))>>
    /\ delivered = 2
    /\ rx = <<>>
    /\ last.op = "ingest"
    /\ last.msg = published[2]
    /\ data = <<>>

\* C10: a successful decode replaces the key's entry whole: the stored entry
\* is exactly the newly decoded one, and a bare value that follows an
\* envelope for the same key leaves the entry without Query Info.
C10_EntryReplacedWholesale ==
    /\ last.op = "ingest" =>
          \A k \in DOMAIN last.decoded :
              last.decoded[k] # None =>
                  /\ k \in DOMAIN data
                  /\ data[k] = last.decoded[k].v
    /\ (delivered = 2 /\ rx = <<>>) =>
          \A k \in PayloadKeys(published[2]) :
              LET value == ValueOf(published[2], k)
              IN  (~EnvelopeShaped(value) /\ parse_content_by_prefix(k, value) # None) =>
                      data[k] = [content |-> parse_content_by_prefix(k, value).v,
                                 query_info |-> None]

\* An envelope named "Home" and then a bare list were ingested for
\* weather-home: the entry holds the second list and no Query Info.
C10_Witness ==
    /\ published = <<Msg1(K_weather_home, Envelope(WeatherArr, QueryOk)),
                     Msg1(K_weather_home, WeatherArr2)>>
    /\ delivered = 2
    /\ rx = <<>>
    /\ last.op = "ingest"
    /\ last.msg = published[2]
    /\ data[K_weather_home].query_info = None
    /\ data[K_weather_home].content.body[1].temp = JNum("60")

\* ------------------------------------------------------------------------
\* Theme claims
\* ------------------------------------------------------------------------
\* The step of a frame tick that takes one theme name off the theme queue.
ThemeStep == pc = "idle" /\ theme_rx # <<>> /\ theme_rx' = Tail(theme_rx)

\* The alias table as the specification lists it: alias -> canonical identifier.
AliasTable ==
    (N_light :> "Light") @@ (N_light_soft :> "Light")
    @@ (N_dark :> "Dark") @@ (N_dark_soft :> "Dark") @@ (N_dark_dimmed :> "Dark")
    @@ (N_after_dark :> "After Dark") @@ (N_her :> "Her") @@ (N_forest :> "Forest")
    @@ (N_sky :> "Sky") @@ (N_clays :> "Clays") @@ (N_stones :> "Stones")
    @@ (N_solarized :> "Solarized")

\* name is alias in some letter case.
SameLetters(name, alias) ==
    /\ Len(name) = Len(alias)
    /\ \A i \in 1..Len(alias) : name[i] = alias[i] \/ name[i] = Upper(alias[i])

\* The canonical identifier the table gives a name, "" when it gives none.
Canonical(name) ==
    IF \E alias \in DOMAIN AliasTable : SameLetters(name, alias)
    THEN AliasTable[CHOOSE alias \in DOMAIN AliasTable : SameLetters(name, alias)]
    ELSE ""

\* C11 (as the specification states it): in every state between consumer
\* steps the current_theme field of the persisted configuration record equals
\* Current Theme, so a change of Current Theme by a theme-sync message or by
\* local selection has reached config.toml once its step has written it.
C11_CurrentThemePersisted == disk.current_theme = current_theme

\* C12: a consumer step that takes the name "solarized" while Current Theme
\* is not Solarized sets Current Theme to Solarized and writes once; every
\* step that takes a name whose canonical form is not Current Theme sets
\* Current Theme to that form and makes exactly one persistence write.
C12_OneWritePerThemeChange ==
    [][ThemeStep =>
        LET theme_name == Head(theme_rx)
        IN  /\ (theme_name = N_solarized /\ current_theme # "Solarized"
                   => current_theme' = "Solarized" /\ nwrites' = 1)
            /\ (Canonical(theme_name) \notin {"", current_theme}
                   => /\ current_theme' = Canonical(theme_name)
                      /\ nwrites' = 1
                      /\ last'.op = "theme" /\ last'.key = theme_name)]_vars

\* "solarized" has been processed, it changed the theme and was written once.
C12_Witness ==
    /\ last.op = "theme" /\ last.key = N_solarized
    /\ current_theme = "Solarized"
    /\ nwrites = 1

\* C13: a consumer step that takes a name whose canonical form equals Current
\* Theme changes neither Current Theme nor config.toml and writes nothing;
\* after "dark-dimmed" Current Theme is Dark, and "dark" right after it is
\* such a step.
C13_AliasIdempotent ==
    [][ThemeStep =>
        LET theme_name == Head(theme_rx)
        IN  /\ (Canonical(theme_name) = current_theme
                   => UNCHANGED <<current_theme, disk, config>> /\ nwrites' = 0)
            /\ (theme_name = N_dark_dimmed => current_theme' = "Dark")
            /\ (theme_name = N_dark /\ last.op = "theme" /\ last.key = N_dark_dimmed
                   => UNCHANGED <<current_theme, disk>> /\ nwrites' = 0)]_vars

\* "dark-dimmed" and then "dark" were published and both processed: the
\* theme is Dark and the second was processed without a write.
C13_Witness ==
    /\ published = <<ThemePayload(N_dark_dimmed), ThemePayload(N_dark)>>
    /\ delivered = 2 /\ theme_rx = <<>>
    /\ last.op = "theme" /\ last.key = N_dark
    /\ current_theme = "Dark"
    /\ nwrites = 0

\* C14: a consumer step that takes a name outside the alias table leaves
\* Current Theme, the configuration and config.toml unchanged and writes
\* nothing; the name is off the queue and the tick goes on, and a name of the
\* table taken right after an unknown one is applied as usual.
C14_UnknownThemeIgnored ==
    [][ThemeStep =>
        LET theme_name == Head(theme_rx)
        IN  /\ (Canonical(theme_name) = ""
                   => /\ UNCHANGED <<current_theme, disk, config>>
                      /\ nwrites' = 0
                      /\ pc' = "drain")
            /\ ((last.op = "theme" /\ Canonical(last.key) = ""
                    /\ Canonical(theme_name) \notin {"", current_theme})
                   => current_theme' = Canonical(theme_name))]_vars

\* An unknown name was processed first, then "solarized" was applied.
C14_Witness ==
    /\ published = <<ThemePayload(N_neon), ThemePayload(N_solarized)>>
    /\ delivered = 2 /\ theme_rx = <<>>
    /\ last.op = "theme" /\ last.key = N_solarized
    /\ current_theme = "Solarized"

\* C15: for every theme name the consumer takes, the resolver's result is the
\* canonical identifier of the alias the name spells in some letter case,
\* and the empty result for every other name; Current Theme after the step is
\* that identifier, or unchanged when there is none.
C15_CaseInsensitiveTable ==
    [][ThemeStep =>
        LET theme_name == Head(theme_rx)
        IN  /\ kiosk_theme(theme_name) = Canonical(theme_name)
            /\ current_theme' = IF Canonical(theme_name) = "" THEN current_theme
                                ELSE Canonical(theme_name)]_vars

\* AFTER-DARK, in capitals, was processed and made the theme After Dark.
C15_Witness ==
    /\ last.op = "theme" /\ last.key = AllCaps(N_after_dark)
    /\ current_theme = "After Dark"
    /\ nwrites = 1

\* ------------------------------------------------------------------------
\* Subscriber and queue claims
\* ------------------------------------------------------------------------
SetupPositions == {"create", "connect", "subscribe"}

\* The subscriber s ends in this step.
Terminates(s, t) == s.pc # "terminated" /\ t.pc = "terminated"

\* rx_mqtt.iter() yields an item to the Data (Theme) Subscriber in this step.
DataYield == log'.data_recv # log.data_recv

ThemeYield == log'.theme_recv # log.theme_recv

\* The item yielded in this step.
DataItem == log'.data_recv[Len(log'.data_recv)]

ThemeItem == log'.theme_recv[Len(log'.theme_recv)]

\* C16: a subscriber ends only from a setup position; from its message loop
\* no step leads anywhere else, a lost connection (the item None) included,
\* and every message yielded to the loop, before or after a lost connection,
\* is forwarded: a data message to the data queue, the theme name of a theme
\* message to the theme queue.
C16_TerminalOnlyBySetup ==
    [][/\ Terminates(data_sub, data_sub') => data_sub.pc \in SetupPositions
       /\ Terminates(theme_sub, theme_sub') => theme_sub.pc \in SetupPositions
       /\ data_sub.pc = "loop" => data_sub'.pc = "loop"
       /\ theme_sub.pc = "loop" => theme_sub'.pc = "loop"
       /\ (DataYield /\ DataItem # None) => rx' = Append(rx, DataItem.v)
       /\ (ThemeYield /\ ThemeItem # None /\ theme_name_of(ThemeItem.v) # None)
             => theme_rx' = Append(theme_rx, theme_name_of(ThemeItem.v).v)]_vars

\* The data connection was lost, a message came after that, and the consumer
\* ingested it; the Data Subscriber is still in its loop.
C16_Witness ==
    /\ log.data_recv = <<None, Some(Msg1(K_weather_home, WeatherArr))>>
    /\ log.data_taken = <<Msg1(K_weather_home, WeatherArr)>>
    /\ K_weather_home \in DOMAIN data
    /\ data_sub.pc = "loop"

\* The consumer can take a step: it is at a position of update() whose next
\* statement does not wait.
ConsumerCanStep == ENABLED (UpdateTheme \/ UpdateData \/ UpdateDrained \/ UiNoClick)

\* C17: the step in which one subscriber ends changes nothing of the other
\* subscriber, of the consumer or of the queues; while the Data Subscriber is
\* terminated the consumer can still step, the Theme Subscriber in its loop
\* still takes every message, and the consumer applies the names it takes;
\* and the same with the two subscribers exchanged.
C17_SetupFailureIsLocal ==
    [][/\ Terminates(data_sub, data_sub')
             => UNCHANGED <<theme_sub, pc, rx, theme_rx, data, config,
                            current_theme, disk>>
       /\ Terminates(theme_sub, theme_sub')
             => UNCHANGED <<data_sub, pc, rx, theme_rx, data, config,
                            current_theme, disk>>
       /\ (data_sub.pc = "terminated" \/ theme_sub.pc = "terminated")
             => ConsumerCanStep
       /\ (data_sub.pc = "terminated" /\ receiving(theme_sub)
              /\ Len(theme_rx) < MaxQueue)
             => \A msg \in NetThemeMessages : ENABLED ThemeForward(msg)
       /\ (theme_sub.pc = "terminated" /\ receiving(data_sub) /\ Len(rx) < MaxQueue)
             => \A msg \in NetDataMessages : ENABLED DataForward(msg)
       /\ (data_sub.pc = "terminated" /\ ThemeStep
              /\ Canonical(Head(theme_rx)) \notin {"", current_theme})
             => current_theme' = Canonical(Head(theme_rx))
       /\ (theme_sub.pc = "terminated" /\ IngestStep
              /\ Head(rx) = Msg1(K_weather_home, WeatherArr))
             => K_weather_home \in DOMAIN data']_vars

\* The Data Subscriber ended on a setup failure without having received
\* anything; the Theme Subscriber forwarded "solarized" and the consumer
\* applied it.
C17_Witness ==
    /\ data_sub.pc = "terminated"
    /\ log.data_recv = <<>>
    /\ theme_sub.pc = "loop"
    /\ log.theme_taken = <<N_solarized>>
    /\ current_theme = "Solarized"

\* C18: at every position of a tick the consumer's next step is enabled
\* whatever the queues hold; the steps of a tick that finds both queues empty
\* (no theme name at the read, no message at the drain, no click) leave the
\* Feed Store, the ledger, Current Theme and config.toml unchanged; and every
\* tick that has begun comes to its end.
C18_ConsumerNeverBlocks ==
    /\ []ConsumerCanStep
    /\ [][(\/ pc = "idle" /\ pc' = "drain" /\ theme_rx = <<>>
           \/ pc = "drain" /\ pc' = "ui"
           \/ pc = "ui" /\ pc' = "idle")
             => UNCHANGED <<data, config, current_theme, disk, rx, theme_rx>>]_vars
    /\ [](pc = "drain" /\ rx = <<>> => ENABLED UpdateDrained)
    /\ (pc # "idle" ~> pc = "idle")

\* A tick has run to its end with both queues empty and no message ever
\* received: nothing is stored, nothing was written.
C18_Witness ==
    /\ pc = "ui"
    /\ log = NoLog
    /\ rx = <<>> /\ theme_rx = <<>>
    /\ data = <<>> /\ disk.current_theme = "Dark" /\ nwrites = 0

\* A step of one of the two subscriber threads.
SubscriberStep ==
    data_sub' # data_sub \/ theme_sub' # theme_sub \/ DataYield \/ ThemeYield

\* C19: a subscriber step (setup, lost connection, reconnection, message
\* received, end) leaves the Feed Store, the ledger, Current Theme,
\* config.toml and the consumer's position unchanged; a data subscriber step
\* leaves the theme queue alone and a theme subscriber step the data queue;
\* and the four change only in a step of the consumer.
C19_OnlyConsumerMutates ==
    [][/\ SubscriberStep
             => UNCHANGED <<data, config, current_theme, disk, pc, nwrites, last>>
       /\ (data_sub' # data_sub \/ DataYield) => UNCHANGED theme_rx
       /\ (theme_sub' # theme_sub \/ ThemeYield) => UNCHANGED rx
       /\ <<data, config, current_theme, disk>>' # <<data, config, current_theme, disk>>
             => (ThemeStep \/ IngestStep) /\ ~SubscriberStep]_vars

\* Both subscribers have forwarded a message and asked for a repaint, and
\* the consumer has not run: nothing is stored and the theme is the default.
C19_Witness ==
    /\ rx = <<Msg1(K_weather_home, WeatherArr)>>
    /\ theme_rx = <<N_solarized>>
    /\ repaint
    /\ data = <<>> /\ current_theme = "Dark" /\ disk.current_theme = "Dark"
    /\ pc = "idle"

IsSome(item) == item # None

HasThemeName(item) == item # None /\ theme_name_of(item.v) # None

Unwrap(items) == [i \in 1..Len(items) |-> items[i].v]

ThemeNamesOf(items) == [i \in 1..Len(items) |-> theme_name_of(items[i].v).v]

\* C20: at every moment the data messages yielded to the Data Subscriber
\* are, in their order, the messages the consumer has processed followed by
\* the data queue, and the theme names of the messages yielded to the Theme
\* Subscriber are, in their order, the names the consumer has resolved
\* followed by the theme queue: none lost, doubled, altered or out of place.
C20_QueuesPreserveOrder ==
    /\ Unwrap(SelectSeq(log.data_recv, IsSome)) = log.data_taken \o rx
    /\ ThemeNamesOf(SelectSeq(log.theme_recv, HasThemeName)) = log.theme_taken \o theme_rx

\* A map and then a payload that is no JSON were received and processed in
\* that order, while a theme name was received and waits in its queue.
C20_Witness ==
    /\ log.data_taken = <<Msg1(K_weather_home, WeatherArr), Garbage>>
    /\ rx = <<>>
    /\ log.theme_taken = <<>>
    /\ theme_rx = <<N_solarized>>

\* ------------------------------------------------------------------------
\* Persistence, startup and tick claims
\* ------------------------------------------------------------------------
\* The ledger part of a configuration record.
LedgerOf(c) == <<c.panels, c.unassigned>>

\* C21: every step that changes the in-memory ledger (a registration during
\* ingestion, an assign, an unassign, a move) ends with at least one write
\* made and with the panels and the unassigned list of config.toml equal to
\* the in-memory ones.
C21_LedgerWrittenBack ==
    [][LedgerOf(config') # LedgerOf(config)
          => LedgerOf(disk') = LedgerOf(config') /\ nwrites' >= 1]_vars

\* One message registered two new keys: two writes, and config.toml holds
\* both keys in unassigned.
C21_Witness ==
    /\ last.op = "ingest"
    /\ last.msg = Msg2(K_cronos_a, OpaqueObj, K_weather_home, WeatherArr2)
    /\ nwrites = 2
    /\ Len(config.unassigned) = 2
    /\ disk.unassigned = config.unassigned

\* What the command line gives for a field, or else what config.toml has.
Override(supplied, persisted) == IF supplied # None THEN supplied.v ELSE persisted

\* C22 (as the specification states it): once the program has started, each
\* theme-sync field of the effective configuration is the value supplied on
\* the command line when one was supplied and the value of config.toml (or
\* the default when there is no file) when none was; so a host or topic of
\* config.toml is the one in effect when the command line names none.
C22_OverridesFieldByField ==
    pc # "new" =>
        LET persisted == load_config(disk)
        IN  /\ config.mqtt_theme_sync
                 = Override(argv.mqtt_theme_sync, persisted.mqtt_theme_sync)
            /\ config.mqtt_theme_username
                 = IF argv.mqtt_theme_username # None THEN argv.mqtt_theme_username
                   ELSE persisted.mqtt_theme_username
            /\ config.mqtt_theme_password
                 = IF argv.mqtt_theme_password # None THEN argv.mqtt_theme_password
                   ELSE persisted.mqtt_theme_password
            /\ config.mqtt_theme_host
                 = Override(argv.mqtt_theme_host, persisted.mqtt_theme_host)
            /\ config.mqtt_theme_topic
                 = Override(argv.mqtt_theme_topic, persisted.mqtt_theme_topic)

\* The theme name a payload carries: it parses as JSON and is an object whose
\* theme field is a string.
PayloadThemeName(msg) ==
    IF msg.payload = Garbage THEN None
    ELSE IF msg.payload.t = "obj" /\ "theme" \in DOMAIN msg.payload.v
            /\ msg.payload.v["theme"].t = "str"
    THEN Some(msg.payload.v["theme"].v)
    ELSE None

\* What the Theme Subscriber does with the message yielded in this step:
\* it forwards `name` and requests a repaint, or it enqueues nothing; either
\* way it stays in its loop.
Forwarded(name) == theme_rx' = Append(theme_rx, name) /\ repaint'

NothingEnqueued == theme_rx' = theme_rx

\* C23 (as the specification states it): for every message yielded to the
\* Theme Subscriber, the theme name is forwarded and a repaint requested if
\* and only if the payload parses as JSON and has a string theme field; for
\* any other payload nothing is enqueued; the subscriber keeps running.
C23_ForwardsIffThemeString ==
    [][(ThemeYield /\ ThemeItem # None) =>
          /\ theme_sub'.pc = "loop"
          /\ IF PayloadThemeName(ThemeItem.v) # None
             THEN Forwarded(PayloadThemeName(ThemeItem.v).v)
             ELSE NothingEnqueued]_vars

\* C23 (amended): the theme name is forwarded and a repaint requested if and
\* only if the message's topic is equal to the theme topic string the program
\* was started with and the payload parses as JSON and has a string theme
\* field; for a message of another topic or any other payload nothing is
\* enqueued; the subscriber keeps running.
C23_ForwardsIffTopicAndThemeString ==
    [][(ThemeYield /\ ThemeItem # None) =>
          /\ theme_sub'.pc = "loop"
          /\ IF ThemeItem.v.topic = config.mqtt_theme_topic
                /\ PayloadThemeName(ThemeItem.v) # None
             THEN Forwarded(PayloadThemeName(ThemeItem.v).v)
             ELSE NothingEnqueued]_vars

\* Subscribed to the default topic, the subscriber was given a theme name, a
\* payload that is not JSON and a theme that is not a string, and forwarded
\* the one name.
C23_Witness ==
    /\ config.mqtt_theme_topic = default_theme_mqtt_topic
    /\ log.theme_recv = <<Some(ThemePayload(N_solarized)),
                          Some(ThemeMsg(default_theme_mqtt_topic, Garbage)),
                          Some(ThemeMsg(default_theme_mqtt_topic, ThemeNotString))>>
    /\ theme_rx = <<N_solarized>>
    /\ theme_sub.pc = "loop"

\* ------------------------------------------------------------------------
\* The opaque prefixes
\* ------------------------------------------------------------------------
\* The variant of an opaque prefix, None for a key of another prefix.
OpaqueVariant(key) ==
    IF starts_with(key, P_cronos) THEN Some("Cronos")
    ELSE IF starts_with(key, P_gitlab) THEN Some("Gitlab")
    ELSE IF starts_with(key, P_pkg) THEN Some("Packages")
    ELSE IF starts_with(key, P_const) THEN Some("Const")
    ELSE None

\* The value the Content Decoder is given for a published value: the data
\* member of an envelope, the value itself otherwise.
ContentOf(value) == IF EnvelopeShaped(value) THEN value.v.data ELSE value

\* C24: whenever a key with an opaque prefix is ingested with a value that is
\* not null, {} or [] (a scalar included), the Content Decoder returns the
\* variant of the prefix holding that very value; published bare, the value
\* is stored under the key as that content.
C24_OpaqueAlwaysDecodes ==
    [][IngestStep =>
          \A k \in PayloadKeys(Head(rx)) :
              LET value == ValueOf(Head(rx), k)
                  raw == ContentOf(value)
              IN  (OpaqueVariant(k) # None /\ ~IsEmptyValue(raw)) =>
                      /\ parse_content_by_prefix(k, raw)
                           = Some([variant |-> OpaqueVariant(k).v, body |-> raw])
                      /\ ~EnvelopeShaped(value) =>
                            /\ k \in DOMAIN data'
                            /\ data'[k].content
                                 = [variant |-> OpaqueVariant(k).v, body |-> value]
      ]_vars

\* pkg-1 was published as an object and then as the scalar 42; the entry holds
\* the scalar as Packages content.
C24_Witness ==
    /\ published = <<Msg1(K_pkg_1, OpaqueObj), Msg1(K_pkg_1, Scalar)>>
    /\ delivered = 2
    /\ rx = <<>>
    /\ last.op = "ingest"
    /\ last.msg = published[2]
    /\ K_pkg_1 \in DOMAIN data
    /\ data[K_pkg_1].content = [variant |-> "Packages", body |-> Scalar]

\* ------------------------------------------------------------------------
\* Draining the queues
\* ------------------------------------------------------------------------
\* C25: at the end of a frame tick every data message that had been enqueued
\* when the tick started has been taken off the data queue (the queue is
\* first in, first out, so none of them is still in it).
C25_DataQueueDrained ==
    pc = "idle" => Len(log.data_taken) >= log.mark.data

\* Two data messages were waiting when a tick started and a third arrived
\* during the drain; the tick has ended with the queue empty.
C25_Witness ==
    /\ pc = "idle"
    /\ log.mark.data = 2
    /\ Len(log.data_taken) = 3
    /\ rx = <<>>
    /\ K_weather_home \in DOMAIN data
    /\ K_cronos_a \in DOMAIN data

\* C26 (as the specification states it): at the end of a frame tick every
\* theme name that had been enqueued when the tick started has been taken
\* off the theme queue.
C26_ThemeQueueDrained ==
    pc = "idle" => Len(log.theme_taken) >= log.mark.theme

\* The render loop sleeps: no tick is running and no repaint request is
\* pending.  With no other wake it runs no tick until a subscriber raises a
\* request.
Asleep == pc = "idle" /\ ~repaint

\* C27 (as the specification states it), for a render loop that runs ticks
\* for repaint requests only: every enqueued theme name is eventually
\* processed, so the loop never goes to sleep with a theme name in the queue
\* (such a name is not processed in the run where no more messages arrive).
C27_NoNameLeftAsleep ==
    Asleep => theme_rx = <<>>

\* ------------------------------------------------------------------------
\* Canonical identifiers as raw names
\* ------------------------------------------------------------------------
\* The nine canonical identifiers, each with the raw theme name that spells it.
Spelled ==
    [id \in {"Light", "Dark", "Solarized", "After Dark", "Her", "Forest", "Sky",
             "Clays", "Stones"} |->
        CASE id = "Light" -> Capitalized(N_light)
          [] id = "Dark" -> Capitalized(N_dark)
          [] id = "Solarized" -> Capitalized(N_solarized)
          [] id = "After Dark" -> N_After_Dark
          [] id = "Her" -> Capitalized(N_her)
          [] id = "Forest" -> Capitalized(N_forest)
          [] id = "Sky" -> Capitalized(N_sky)
          [] id = "Clays" -> Capitalized(N_clays)
          [] id = "Stones" -> Capitalized(N_stones)]

\* C28 (as the specification states it): a consumer step that takes one of
\* the nine canonical identifiers, spelled as the catalog spells it, as the
\* raw theme name leaves Current Theme equal to that identifier.
C28_AcceptsCanonicalIdentifiers ==
    [][ThemeStep =>
          \A id \in DOMAIN Spelled :
              Head(theme_rx) = Spelled[id] => current_theme' = id]_vars

\* ------------------------------------------------------------------------
\* Reconnection
\* ------------------------------------------------------------------------
\* The Data Subscriber is in its message loop over a transport that is
\* connected: it was never disconnected, or it was and has reconnected.
DataConnected == data_sub.pc = "loop" /\ data_sub.link # "down"

\* C29 (as the specification states it): whenever the Data Subscriber's
\* transport is connected, after a disconnect and reconnection as well as
\* before, a message published on the data topic is forwarded to the raw
\* message queue (the queue having room); only while the transport is down
\* are messages lost.
C29_ForwardsAfterReconnect ==
    (DataConnected /\ Len(rx) < MaxQueue) =>
        \A msg \in NetDataMessages : ENABLED DataForward(msg)

\* ------------------------------------------------------------------------
\* The Theme Subscriber and the sync flag
\* ------------------------------------------------------------------------
\* The thread of subscriber s was spawned (it may have ended since).
Exists(s) == s.pc # "off"

\* This step is the user picking a theme in the selector window.
LocalSelection ==
    /\ pc = "ui"
    /\ show_theme_selector
    /\ last'.op = "select"
    /\ current_theme' = last'.key

\* C30: the step that starts the program spawns the Theme Subscriber exactly
\* when theme sync is enabled in the effective configuration; no later step
\* spawns or removes it, and a step that switches the flag leaves it as it
\* is; while there is no Theme Subscriber the theme queue stays empty and
\* Current Theme changes only by local selection.
C30_SubscriberFixedAtStartup ==
    [][/\ (pc = "new" => (Exists(theme_sub') <=> config'.mqtt_theme_sync))
       /\ (pc # "new" => (Exists(theme_sub') <=> Exists(theme_sub)))
       /\ ((pc # "new" /\ config'.mqtt_theme_sync # config.mqtt_theme_sync)
              => theme_sub' = theme_sub)
       /\ ((pc # "new" /\ ~Exists(theme_sub))
              => /\ theme_rx = <<>>
                 /\ theme_rx' = <<>>
                 /\ (current_theme' # current_theme => LocalSelection))
      ]_vars

\* Started with sync disabled; the flag was switched on during the run and
\* the user then picked Her: there is still no Theme Subscriber.
C30_Witness ==
    /\ pc = "idle"
    /\ ~Exists(theme_sub)
    /\ config.mqtt_theme_sync
    /\ disk.mqtt_theme_sync
    /\ last.op = "select"
    /\ current_theme = "Her"

\* ------------------------------------------------------------------------
\* Ledger and Feed Store claims
\* ------------------------------------------------------------------------
InLedger(c, key) == Count(LedgerKeys(c), key) > 0

\* The keys of a payload that are new: they decode, have no Feed Store entry
\* and are in no ledger list.
NewKeys(payload) ==
    {k \in PayloadKeys(payload) :
        /\ parse_data_entry(k, ValueOf(payload, k)) # None
        /\ k \notin DOMAIN data
        /\ ~InLedger(config, k)}

\* C31: the step that processes one data message makes exactly one write per
\* new key, and each new key is once in unassigned afterwards; every other
\* key of the message (one with an entry, one already in a list, one that
\* fails to decode) is in each list as often as before; with no new key the
\* step writes nothing and config.toml is as it was.
C31_WritesOnlyOnRegistration ==
    [][IngestStep =>
          LET payload == Head(rx)
              new == NewKeys(payload)
          IN  /\ nwrites' = Cardinality(new)
              /\ Len(config'.unassigned) = Len(config.unassigned) + Cardinality(new)
              /\ \A k \in new :
                    Count(config'.unassigned, k) = 1 /\ ~InSomePanel(config', k)
              /\ \A k \in PayloadKeys(payload) \ new :
                    /\ Count(config'.unassigned, k) = Count(config.unassigned, k)
                    /\ \A p \in Panels :
                          Count(config'.panels[p], k) = Count(config.panels[p], k)
              /\ (new = {} => disk' = disk /\ config' = config)
      ]_vars

\* weather-home was in panel 0 from the start; the mixed message, two of whose
\* keys fail to decode, registered cronos-a with one write.
C31_Witness ==
    /\ last.op = "ingest"
    /\ last.msg = MsgMixed
    /\ config.panels[1] = <<K_weather_home>>
    /\ config.unassigned = <<K_cronos_a>>
    /\ DOMAIN data = {K_cronos_a}
    /\ nwrites = 1

\* C32: in every state between consumer steps, every key that has a Feed
\* Store entry is in at least one of the four ledger lists.
C32_StoredKeyHasSlot ==
    \A k \in DOMAIN data : InLedger(config, k)

\* Two keys are stored; cronos-a, loaded in panel 1, was just unassigned and
\* sits in unassigned behind weather-home.
C32_Witness ==
    /\ last.op = "unassign"
    /\ last.key = K_cronos_a
    /\ DOMAIN data = {K_cronos_a, K_weather_home}
    /\ config.unassigned = <<K_weather_home, K_cronos_a>>
    /\ config.panels = <<<<>>, <<>>, <<>>>>

\* C33: no step removes a key from the Feed Store: a failed decode, a payload
\* that is no map, an empty value, an unassign, a move, a theme change and a
\* lost connection all leave every stored key stored.
C33_FeedStoreOnlyGrows ==
    [][DOMAIN data \subseteq DOMAIN data']_vars

\* weather-home decoded once and was assigned and moved to panel 1; the theme
\* was changed by a theme message; then weather-home arrived with a report
\* that does not decode: it still has its entry.
C33_Witness ==
    /\ log.data_recv = <<Some(Msg1(K_weather_home, WeatherArr)),
                         Some(Msg1(K_weather_home, WeatherBadArr))>>
    /\ log.theme_taken = <<N_solarized>>
    /\ current_theme = "Solarized"
    /\ last.op = "ingest"
    /\ last.msg = Msg1(K_weather_home, WeatherBadArr)
    /\ config.panels[2] = <<K_weather_home>>
    /\ K_weather_home \in DOMAIN data

\* The ledger's lists by number: 0 is unassigned, 1 to 3 are the panels.
List(c, n) == IF n = 0 THEN c.unassigned ELSE c.panels[n]

\* vec without its i-th element, the others in order.
Without(vec, i) == SubSeq(vec, 1, i - 1) \o SubSeq(vec, i + 1, Len(vec))

KeySet(c) == {LedgerKeys(c)[i] : i \in 1..Len(LedgerKeys(c))}

\* This step is an assign, unassign or move of the UI.
LedgerOp ==
    /\ pc = "ui"
    /\ config' # config
    /\ last'.op \in {"assign", "unassign", "move"}

\* C34: an assign, unassign or move takes exactly one key out of its source
\* list, the other keys of that list keeping their order, and appends it to
\* the end of the target list; the other lists, the set of keys in the ledger
\* and the Feed Store are unchanged.
C34_UiOpsConserveKeys ==
    [][LedgerOp =>
          LET key == last'.key
              src == last'.src
              dst == last'.dst
          IN  /\ src # dst
              /\ \E i \in 1..Len(List(config, src)) :
                    /\ List(config, src)[i] = key
                    /\ List(config', src) = Without(List(config, src), i)
              /\ List(config', dst) = Append(List(config, dst), key)
              /\ \A n \in 0..3 : n \notin {src, dst} => List(config', n) = List(config, n)
              /\ KeySet(config') = KeySet(config)
              /\ Len(LedgerKeys(config')) = Len(LedgerKeys(config))
              /\ data' = data
      ]_vars

\* weather-home was moved from panel 0 to panel 1, where it stands behind
\* cronos-a.
C34_Witness ==
    /\ last.op = "move"
    /\ last.key = K_weather_home
    /\ last.src = 1
    /\ last.dst = 2
    /\ config.panels = <<<<>>, <<K_cronos_a, K_weather_home>>, <<>>>>
    /\ config.unassigned = <<>>

\* The elements of vec from position n + 1 on.
After(vec, n) == {vec[i] : i \in (n + 1)..Len(vec)}

\* C35: the step that processes a data message leaves the keys that were in
\* unassigned at the head of the list, in their order, and puts the keys it
\* registers behind them: a key first decoded in a later message stands
\* behind every key registered by an earlier one.
C35_UnassignedByInsertion ==
    [][IngestStep =>
          LET n == Len(config.unassigned)
          IN  /\ Len(config'.unassigned) >= n
              /\ SubSeq(config'.unassigned, 1, n) = config.unassigned
              /\ After(config'.unassigned, n) = NewKeys(Head(rx))
      ]_vars

\* From an empty ledger weather-home was registered by one message and
\* cronos-a by a later one, the mixed message: it stands second.
C35_Witness ==
    /\ last.op = "ingest"
    /\ last.msg = MsgMixed
    /\ nwrites = 1
    /\ config.unassigned = <<K_weather_home, K_cronos_a>>
    /\ config.panels = <<<<>>, <<>>, <<>>>>
    /\ DOMAIN data = {K_weather_home, K_cronos_a}
    /\ data[K_weather_home].content.variant = "Weather"

\* ------------------------------------------------------------------------
\* Resolver results and the catalog
\* ------------------------------------------------------------------------
CatalogNames == {themes[i] : i \in 1..Len(themes)}

\* C36: started with a catalog name as Current Theme, Current Theme is a
\* catalog name in every state and is found in the catalog, so the hardcoded
\* default is not taken; and every result the resolver gives for a name it
\* has been handed is a catalog name (or the empty result of an unknown name,
\* which is not stored).
C36_ResolverStaysInCatalog ==
    /\ current_theme \in CatalogNames
    /\ ~get_current_theme(current_theme).fallback
    /\ get_current_theme(current_theme).name = current_theme
    /\ \A i \in 1..Len(theme_rx) : kiosk_theme(theme_rx[i]) \in CatalogNames \cup {""}
    /\ last.op = "theme" => kiosk_theme(last.key) \in CatalogNames \cup {""}

\* "solarized" was applied by a theme message, an unknown name was ignored,
\* and the user then picked Stones in the selector.
C36_Witness ==
    /\ published = <<ThemePayload(N_solarized), ThemePayload(N_neon)>>
    /\ delivered = 2
    /\ theme_rx = <<>>
    /\ last.op = "select"
    /\ current_theme = "Stones"

====
